---- MODULE Spec2Model ----
(***************************************************************************)
(* Model of the petronel raid aggregator: the Worker event loop            *)
(* (src/client/worker.rs), the Subscription handles that feed its control  *)
(* channel (src/client/subscription.rs, src/client/client.rs), the         *)
(* broadcast groups (src/broadcast.rs), the id pool (src/id_pool.rs), the  *)
(* recent-tweet ring buffer (src/circular_buffer.rs) and the image hash    *)
(* pipeline (src/image_hash/mod.rs).                                       *)
(*                                                                         *)
(* Fields that no handler reads back (tweet ids, users, timestamps,        *)
(* last_seen) are left out; a tweet is represented by the boss name it was *)
(* posted for, an image URL by a small token, an image hash by a number.   *)
(***************************************************************************)
EXTENDS Integers, Sequences, FiniteSets, TLC

(***************************************************************************)
(* Bounds of the model.                                                    *)
(***************************************************************************)
\* history sizes 0..MaxHist are given to with_history_size
MaxHist == 1
\* longest free list of the id pool (caps repeated recycling)
MaxFree == 2
\* longest hash request channel the posts build up
MaxReq == 1
\* most tweets counted for one boss by a Simple metrics sink
MaxTweets == 2
\* a caller makes a call while fewer events than this wait in the control
\* channel
MaxQueue == 2

(***************************************************************************)
(* Program constants.                                                      *)
(***************************************************************************)
DEFAULT_BOSS_LEVEL == 0
MAX_CONCURRENT_IMAGE_HASHER_REQUESTS == 5
\* largest value of BossLevel = i16
I16Max == 32767

(***************************************************************************)
(* Input domains.                                                          *)
(***************************************************************************)
\* A boss name is kept in the parts REGEX_BOSS_NAME looks at: what precedes
\* the digits, the digits, whether a space follows them, and the rest.
NameJa == [pre |-> "Lv", digits |-> 60, space |-> TRUE, rest |-> "ja"]
NameEn == [pre |-> "Lvl ", digits |-> 60, space |-> TRUE, rest |-> "en"]
Names == {NameJa, NameEn}
Languages == {"Japanese", "English"}
\* image URLs carried by posts; NoImage is Option::None
NoImage == "none"
Images == {NoImage, "url"}
\* a string that is no URI
BadUrl == "not a url"
\* image hashes; NoHash is Option::None
NoHash == 0
Hashes == {11, 22}
\* subscriber objects handed to Client::subscribe
Subs == {"s1", "s2"}
\* the subscribers whose send can start to fail
Unreliable == {"s1"}
NoSub == "nosub"
\* entities without a media field; the image before a post is parsed
NoMedia == [present |-> FALSE, list |-> <<>>]
Unparsed == "unparsed"
NoId == -1
NoName == [pre |-> "", digits |-> 0, space |-> FALSE, rest |-> ""]

VARIABLES
    status,            \* the Worker future: "running", or how it ended
    id_pool,           \* Worker.id_pool: [max_id, available]
    subscribers,       \* Worker.subscribers: SubId -> Sub
    bosses,            \* Worker.bosses: BossName -> RaidBossEntry
    requested_bosses,  \* Worker.requested_bosses: BossName -> Broadcast
    cached_boss_list,  \* Worker.cached_boss_list
    tweet_history_size,\* Worker.tweet_history_size
    filter_map_message,\* Worker.filter_map_message: the kinds it maps to Some
    metrics,           \* Worker.metrics: the sink, metrics::NoOp or metrics::Simple
    ctl,               \* the control channel (mpsc of Event)
    handles,           \* the Subscription handle made for each subscriber
    broken,            \* subscribers whose send returns Err
    hreq,              \* the hash request channel (ImageHashSender.sink)
    outstanding,       \* Inner.outstanding
    fq,                \* futures held by BufferUnordered
    concurrency,       \* the amount given to buffer_unordered
    events,            \* Worker.events: the flags of its Select combinators and
                       \* the fetches that have completed, oldest first
    last,              \* the event the worker handled last
    obs,               \* history of what the handlers did (see Obs0)
    ring,              \* a CircularBuffer used on its own
    pushed,            \* the items pushed into ring, in order
    lent,              \* the ids an IdPool used on its own has handed out
    requests,          \* the AsyncResult of each Client request: its state
    backlog,           \* a Backlog used on its own
    media,             \* entities.media of a post given to the parser
    image              \* the image of the RaidInfo produced from that post

workerVars == <<status, id_pool, subscribers, bosses, requested_bosses,
                cached_boss_list, tweet_history_size, filter_map_message,
                metrics>>
clientVars == <<ctl, handles, requests>>
pipeVars == <<hreq, outstanding, fq, concurrency, events>>
\* the components exercised on their own, outside the worker
unitVars == <<ring, pushed, lent, backlog, media, image>>
vars == <<status, id_pool, subscribers, bosses, requested_bosses,
          cached_boss_list, tweet_history_size, filter_map_message, metrics,
          ctl, handles, broken,
          hreq, outstanding, fq, concurrency, events, last, obs, ring, pushed, lent,
          requests, backlog, media, image>>

(***************************************************************************)
(* Helpers.                                                                *)
(***************************************************************************)
Range(f) == {f[x] : x \in DOMAIN f}
Restrict(f, S) == [x \in S |-> f[x]]
\* HashMap::insert
MapPut(f, k, v) == [x \in (DOMAIN f) \cup {k} |-> IF x = k THEN v ELSE f[x]]
\* HashMap::remove
MapDel(f, k) == [x \in (DOMAIN f) \ {k} |-> f[x]]
EmptyMap == [x \in {} |-> 0]
\* Option::None of an adapted message
None == [kind |-> "None"]
\* the orders in which a HashSet can be drained
Orders(S) == {q \in [1..Cardinality(S) -> S] : Range(q) = S}

(***************************************************************************)
(* History variable obs: what the handlers have done so far.               *)
(*   failed      subscribers whose send returned Err during a broadcast    *)
(*   resent      subscribers whose send was invoked after that             *)
(*   log         the sends of the handler that ran last, in order: for     *)
(*               each broadcast or direct reply the message, the           *)
(*               subscribers whose send was invoked with it (to) and how   *)
(*               many times it was invoked on each (calls); a group is a   *)
(*               HashMap, whose order of iteration is not recorded         *)
(*   asked       the bosses the handler that ran last called               *)
(*               ImageHashSender::request for                              *)
(***************************************************************************)
Obs0 == [failed |-> {}, resent |-> {}, log |-> <<>>, asked |-> <<>>]

\* The Worker struct as one record, threaded through the handlers.
W == [status |-> status, id_pool |-> id_pool, subscribers |-> subscribers,
      bosses |-> bosses, requested_bosses |-> requested_bosses,
      cached_boss_list |-> cached_boss_list, metrics |-> metrics,
      hreq |-> hreq, obs |-> [obs EXCEPT !.log = <<>>, !.asked = <<>>]]

Commit(w) ==
    /\ status' = w.status
    /\ id_pool' = w.id_pool
    /\ subscribers' = w.subscribers
    /\ bosses' = w.bosses
    /\ requested_bosses' = w.requested_bosses
    /\ cached_boss_list' = w.cached_boss_list
    /\ metrics' = w.metrics
    /\ UNCHANGED <<tweet_history_size, filter_map_message, unitVars>>
    /\ hreq' = w.hreq
    /\ obs' = w.obs

(***************************************************************************)
(* src/id_pool.rs                                                          *)
(***************************************************************************)
IdPoolNew == [max_id |-> 0, available |-> <<>>]

\* IdPool::get: the id handed out
IdPoolGetId(p) ==
    IF p.available # <<>> THEN p.available[Len(p.available)] ELSE p.max_id

\* get that leaves the id it hands out in the free list
IdPoolGetNoPop(p) ==
    IF p.available # <<>> THEN p ELSE [p EXCEPT !.max_id = p.max_id + 1]

\* IdPool::get: the pool afterwards
IdPoolGet(p) ==
    IF p.available # <<>>
    THEN [p EXCEPT !.available = SubSeq(p.available, 1, Len(p.available) - 1)]
    ELSE [p EXCEPT !.max_id = p.max_id + 1]

\* IdPool::recycle
IdPoolRecycle(p, id) == [p EXCEPT !.available = Append(p.available, id)]

\* the ids handed out by get and not given back since
Outstanding(p) == {i \in 0..(p.max_id - 1) : \A k \in 1..Len(p.available) : p.available[k] # i}

(***************************************************************************)
(* src/broadcast.rs                                                        *)
(***************************************************************************)
BroadcastNew == EmptyMap

\* Subscriber::send of subscriber s
SendOk(s) == s \notin broken

\* send that drops nobody
BroadcastSendKeepAll(g) == g

\* Broadcast::send: the group afterwards (retain the subscribers that took it)
BroadcastSend(g) == Restrict(g, {i \in DOMAIN g : SendOk(g[i])})

\* Broadcast::subscriber_count
subscriber_count(g) == Cardinality(DOMAIN g)

\* maybe_send that sends whatever the adapter returned
BroadcastMaybeSendAlways(g, present) == BroadcastSend(g)

\* Broadcast::maybe_send
BroadcastMaybeSend(g, present) == IF present THEN BroadcastSend(g) ELSE g

\* the invocations of Subscriber::send by one pass over group g: one for
\* each entry, counted by subscriber
CallsOf(g) == [s \in Range(g) |-> Cardinality({i \in DOMAIN g : g[i] = s})]

\* what Broadcast::maybe_send of m to group g adds to the history
ObsBroadcast(o, g, m) ==
    IF m # None
    THEN [o EXCEPT !.failed = @ \cup {s \in Range(g) : ~SendOk(s)},
                   !.resent = @ \cup (Range(g) \cap o.failed),
                   !.log = Append(@, [to |-> Range(g), msg |-> m, calls |-> CallsOf(g)])]
    ELSE o

\* what Subscriber::maybe_send of m to subscriber s adds to the history
ObsDirect(o, s, m) ==
    IF m # None
    THEN [o EXCEPT !.resent = @ \cup ({s} \cap o.failed),
                   !.log = Append(@, [to |-> {s}, msg |-> m, calls |-> [x \in {s} |-> 1]])]
    ELSE o

(***************************************************************************)
(* src/circular_buffer.rs                                                  *)
(***************************************************************************)
\* CircularBuffer::with_capacity (Vec::with_capacity gives that capacity)
CircularBufferWithCapacity(c) == [buffer |-> <<>>, next_index |-> 0, capacity |-> c]

\* CircularBuffer::push panics: buffer[next_index] out of bounds, or the
\* remainder by a zero capacity
PushPanics(b) ==
    \/ Len(b.buffer) >= b.capacity /\ b.next_index >= Len(b.buffer)
    \/ b.capacity = 0

\* push that always grows the Vec
CircularBufferPushGrow(b, item) ==
    [b EXCEPT
       !.buffer = Append(b.buffer, item),
       !.next_index = (b.next_index + 1) % b.capacity]

\* push that overwrites without advancing next_index
CircularBufferPushStuck(b, item) ==
    [b EXCEPT
       !.buffer = IF Len(b.buffer) < b.capacity
                  THEN Append(b.buffer, item)
                  ELSE [b.buffer EXCEPT ![b.next_index + 1] = item],
       !.next_index = IF Len(b.buffer) < b.capacity
                      THEN (b.next_index + 1) % b.capacity
                      ELSE b.next_index]

\* CircularBuffer::push, when it returns
CircularBufferPush(b, item) ==
    [b EXCEPT
       !.buffer = IF Len(b.buffer) < b.capacity
                  THEN Append(b.buffer, item)
                  ELSE [b.buffer EXCEPT ![b.next_index + 1] = item],
       !.next_index = (b.next_index + 1) % b.capacity]

(***************************************************************************)
(* src/backlog.rs                                                          *)
(***************************************************************************)
\* The revision counters are u32. 2^32 is beyond the integers of the model
\* checker, so a u32 is kept as its two 16-bit halves: hi * 2^16 + lo.
U16 == 65536
U32Zero == [hi |-> 0, lo |-> 0]

\* u32::wrapping_add(1)
wrapping_add_1(r) ==
    IF r.lo + 1 < U16
    THEN [r EXCEPT !.lo = @ + 1]
    ELSE [hi |-> (r.hi + 1) % U16, lo |-> 0]

\* Backlog::with_capacity (Vec::with_capacity gives that capacity)
BacklogWithCapacity(c) ==
    [buffer |-> <<>>, capacity |-> c, revision |-> U32Zero, next_index |-> 0,
     snapshot |-> [buffer |-> <<>>, revision |-> U32Zero]]

\* Backlog::push
BacklogPush(b, item) ==
    [b EXCEPT
       !.buffer = IF Len(b.buffer) < b.capacity
                  THEN Append(b.buffer, item)
                  ELSE [b.buffer EXCEPT ![b.next_index + 1] = item],
       !.next_index = (b.next_index + 1) % b.capacity,
       !.revision = wrapping_add_1(@)]

\* 2^32 calls of Backlog::push in a row, each with the same item: the
\* buffer is full of the item, next_index has advanced by 2^32 modulo the
\* capacity, and 2^32 wrapping increments have brought revision back to the
\* value it had
BacklogPushCycle(b, item) ==
    [b EXCEPT
       !.buffer = [i \in 1..b.capacity |-> item],
       !.next_index = (b.next_index + (U16 % b.capacity) * (U16 % b.capacity))
                         % b.capacity]

\* Backlog::snapshot: the Vec it returns, the cached one if the revisions
\* agree, else the items right of next_index followed by those left of it
BacklogSnapshotItems(b) ==
    IF b.snapshot.revision = b.revision
    THEN b.snapshot.buffer
    ELSE SubSeq(b.buffer, b.next_index + 1, Len(b.buffer))
           \o SubSeq(b.buffer, 1, b.next_index)

\* Backlog::snapshot: the backlog afterwards
BacklogSnapshot(b) ==
    [b EXCEPT !.snapshot = [buffer |-> BacklogSnapshotItems(b), revision |-> b.revision]]

(***************************************************************************)
(* src/model.rs                                                            *)
(***************************************************************************)
\* BossName::parse_level: REGEX_BOSS_NAME finds "Lv" or "Lvl " followed by
\* digits and a space; the digits are parsed as an i16. NoLevel is None.
NoLevel == -1
parse_level(name) ==
    IF name.pre \in {"Lv", "Lvl "} /\ name.space /\ name.digits <= I16Max
    THEN name.digits
    ELSE NoLevel

\* the kinds of Message
Kinds == {"Heartbeat", "Tweet", "TweetList", "BossUpdate", "BossList", "BossRemove"}
Msg(kind, body) == [kind |-> kind, body |-> body]

\* (self.filter_map_message)(message): Some(item) or None
Adapt(m) == IF m.kind \in filter_map_message THEN m ELSE None

\* Uri parse in ImageHashSender::request
UrlParses(u) == u # BadUrl

(***************************************************************************)
(* src/metrics.rs: the sink is metrics::NoOp, which records nothing, or    *)
(* metrics::Simple, which holds SimpleMetrics.                             *)
(***************************************************************************)
\* metrics::NoOp
NoOp == [kind |-> "NoOp"]

\* metrics::simple
simple == [kind |-> "Simple", total_subscriber_count |-> 0, boss_counts |-> EmptyMap]

\* Metrics::set_total_subscriber_count
set_total_subscriber_count(m, count) ==
    IF m.kind = "NoOp" THEN m ELSE [m EXCEPT !.total_subscriber_count = count]

\* Metrics::set_follower_count
set_follower_count(m, boss_name, count) ==
    IF m.kind = "NoOp"
    THEN m
    ELSE IF boss_name \in DOMAIN m.boss_counts
    THEN [m EXCEPT !.boss_counts[boss_name].followers = count]
    ELSE [m EXCEPT !.boss_counts = MapPut(@, boss_name, [followers |-> 0, tweets |-> 1])]

\* Metrics::inc_tweet_count; the wrapping_add wraps at 2^32, far above the
\* counts reached here (see MaxTweets)
inc_tweet_count(m, boss_name) ==
    IF m.kind = "NoOp"
    THEN m
    ELSE IF boss_name \in DOMAIN m.boss_counts
    THEN [m EXCEPT !.boss_counts[boss_name].tweets = @ + 1]
    ELSE [m EXCEPT !.boss_counts = MapPut(@, boss_name, [followers |-> 0, tweets |-> 1])]

\* Metrics::remove_boss
remove_boss(m, boss_name) ==
    IF m.kind = "NoOp" THEN m ELSE [m EXCEPT !.boss_counts = MapDel(@, boss_name)]

\* the tweets counted for a boss, 0 if the sink has no entry for it
TweetCount(m, boss_name) ==
    IF m.kind = "Simple" /\ boss_name \in DOMAIN m.boss_counts
    THEN m.boss_counts[boss_name].tweets
    ELSE 0

(***************************************************************************)
(* src/client/worker.rs                                                    *)
(***************************************************************************)
\* Worker::subscribe: the id given to the subscriber
SubscribeId(w) == IdPoolGetId(w.id_pool)

\* Worker::subscribe
subscribe(w, subscriber) ==
    LET subs == MapPut(w.subscribers, SubscribeId(w), subscriber) IN
    [w EXCEPT !.id_pool = IdPoolGet(w.id_pool),
              !.subscribers = subs,
              !.metrics = set_total_subscriber_count(@, subscriber_count(subs))]

\* unsubscribe that also takes the id out of every follower group and
\* every pending group
unsubscribe_everywhere(w, id) ==
    LET subs == MapDel(w.subscribers, id) IN
    [w EXCEPT !.subscribers = subs,
              !.metrics = set_total_subscriber_count(@, subscriber_count(subs)),
              !.id_pool = IdPoolRecycle(w.id_pool, id),
              !.bosses = [n \in DOMAIN w.bosses |->
                            [w.bosses[n] EXCEPT !.broadcast = MapDel(@, id)]],
              !.requested_bosses = [n \in DOMAIN w.requested_bosses |->
                                       MapDel(w.requested_bosses[n], id)]]

\* Worker::unsubscribe
unsubscribe(w, id) ==
    LET subs == MapDel(w.subscribers, id) IN
    [w EXCEPT !.subscribers = subs,
              !.metrics = set_total_subscriber_count(@, subscriber_count(subs)),
              !.id_pool = IdPoolRecycle(w.id_pool, id)]

\* follow that does not look the boss up in the catalog
follow_pending_only(w, id, boss_name) ==
    IF id \in DOMAIN w.subscribers
    THEN LET subscriber == w.subscribers[id] IN
         IF boss_name \in DOMAIN w.requested_bosses
         THEN [w EXCEPT !.requested_bosses[boss_name] = MapPut(@, id, subscriber)]
         ELSE [w EXCEPT !.requested_bosses =
                           MapPut(@, boss_name, MapPut(BroadcastNew, id, subscriber))]
    ELSE w

\* Worker::follow
follow(w, id, boss_name) ==
    IF id \in DOMAIN w.subscribers
    THEN LET subscriber == w.subscribers[id] IN
         IF boss_name \in DOMAIN w.bosses
         THEN LET broadcast == MapPut(w.bosses[boss_name].broadcast, id, subscriber) IN
              [w EXCEPT !.bosses[boss_name].broadcast = broadcast,
                        !.metrics = set_follower_count(@, boss_name,
                                        subscriber_count(broadcast))]
         ELSE IF boss_name \in DOMAIN w.requested_bosses
         THEN [w EXCEPT !.requested_bosses[boss_name] = MapPut(@, id, subscriber)]
         ELSE [w EXCEPT !.requested_bosses =
                           MapPut(@, boss_name, MapPut(BroadcastNew, id, subscriber))]
    ELSE w

\* unfollow that forgets the pending table
unfollow_catalog_only(w, id, boss_name) ==
    IF boss_name \in DOMAIN w.bosses
    THEN [w EXCEPT !.bosses[boss_name].broadcast = MapDel(@, id)]
    ELSE w

\* unfollow that leaves a pending group in the table when its last
\* subscriber goes
unfollow_keeps_group(w, id, boss_name) ==
    IF boss_name \in DOMAIN w.bosses
    THEN LET broadcast == MapDel(w.bosses[boss_name].broadcast, id) IN
         [w EXCEPT !.bosses[boss_name].broadcast = broadcast,
                   !.metrics = set_follower_count(@, boss_name,
                                   subscriber_count(broadcast))]
    ELSE IF boss_name \in DOMAIN w.requested_bosses
    THEN [w EXCEPT !.requested_bosses[boss_name] = MapDel(@, id)]
    ELSE w

\* Worker::unfollow
unfollow(w, id, boss_name) ==
    IF boss_name \in DOMAIN w.bosses
    THEN LET broadcast == MapDel(w.bosses[boss_name].broadcast, id) IN
         [w EXCEPT !.bosses[boss_name].broadcast = broadcast,
                   !.metrics = set_follower_count(@, boss_name,
                                   subscriber_count(broadcast))]
    ELSE IF boss_name \in DOMAIN w.requested_bosses
    THEN LET broadcast == MapDel(w.requested_bosses[boss_name], id) IN
         IF DOMAIN broadcast = {}
         THEN [w EXCEPT !.requested_bosses = MapDel(@, boss_name)]
         ELSE [w EXCEPT !.requested_bosses[boss_name] = broadcast]
    ELSE w

\* Worker::update_cached_boss_list
update_cached_boss_list(w) ==
    [w EXCEPT !.cached_boss_list =
        Adapt(Msg("BossList", {w.bosses[n].boss : n \in DOMAIN w.bosses}))]

\* ImageHashSender::request
request(w, boss_name, image_url) ==
    LET w1 == [w EXCEPT !.obs.asked = Append(@, boss_name)]
    IN IF UrlParses(image_url) THEN [w1 EXCEPT !.hreq = Append(@, boss_name)] ELSE w1

\* Broadcast::maybe_send on the global group
SendGlobal(w, m) ==
    [w EXCEPT !.subscribers = BroadcastMaybeSend(@, m # None),
              !.obs = ObsBroadcast(@, w.subscribers, m)]

\* Broadcast::maybe_send on the follower group of a catalog entry
SendFollowers(w, boss_name, m) ==
    [w EXCEPT !.bosses[boss_name].broadcast = BroadcastMaybeSend(@, m # None),
              !.obs = ObsBroadcast(@, w.bosses[boss_name].broadcast, m)]

\* fan-out step that sends to the followers of the translation but leaves
\* its recent buffer alone
FanOutOneNoPush(w, boss_name, m, tweet) ==
    IF w.status # "running" \/ boss_name \notin DOMAIN w.bosses
    THEN w
    ELSE SendFollowers(w, boss_name, m)

\* one step of the translation fan-out of handle_raid_info: the tweet goes
\* to the followers and the recent buffer of boss_name, if it is in the catalog
FanOutOne(w, boss_name, m, tweet) ==
    IF w.status # "running" \/ boss_name \notin DOMAIN w.bosses
    THEN w
    ELSE LET w1 == SendFollowers(w, boss_name, m) IN
         IF PushPanics(w1.bosses[boss_name].recent_tweets)
         THEN [w1 EXCEPT !.status = "panicked"]
         ELSE [w1 EXCEPT !.bosses[boss_name].recent_tweets = CircularBufferPush(@, tweet)]

\* boss_names are the translations in the order boss_translations.iter()
\* gives them
RECURSIVE FanOut(_, _, _, _)
FanOut(w, boss_names, m, tweet) ==
    IF boss_names = <<>>
    THEN w
    ELSE FanOut(FanOutOne(w, Head(boss_names), m, tweet), Tail(boss_names), m, tweet)

\* existing-boss branch that asks for the hash whenever the post carries an
\* image
RaidInfoOccupiedAsksAgain(w, info, order) ==
    LET name == info.boss_name
        m == Adapt(Msg("Tweet", name))
        w1 == SendFollowers(w, name, m)
        w2 == IF info.image # NoImage
              THEN [request(w1, name, info.image) EXCEPT
                        !.bosses[name].boss.image = info.image]
              ELSE w1
    IN  IF PushPanics(w2.bosses[name].recent_tweets)
        THEN [w2 EXCEPT !.status = "panicked"]
        ELSE FanOut([w2 EXCEPT !.bosses[name].recent_tweets = CircularBufferPush(@, name)],
                    order, m, name)

\* Worker::handle_raid_info, Entry::Occupied; order is the order in which the
\* HashSet of the translations iterates, which is any order
RaidInfoOccupied(w, info, order) ==
    LET name == info.boss_name
        m == Adapt(Msg("Tweet", name))
        w1 == SendFollowers(w, name, m)
        w2 == IF w1.bosses[name].boss.image = NoImage /\ info.image # NoImage
              THEN [request(w1, name, info.image) EXCEPT
                        !.bosses[name].boss.image = info.image]
              ELSE w1
    IN  IF PushPanics(w2.bosses[name].recent_tweets)
        THEN [w2 EXCEPT !.status = "panicked"]
        ELSE FanOut([w2 EXCEPT !.bosses[name].recent_tweets = CircularBufferPush(@, name)],
                    order, m, name)

\* new-boss branch that starts the entry with an empty follower group and
\* leaves the pending group where it is
RaidInfoVacantNoPromotion(w, info) ==
    LET name == info.boss_name
        m == Adapt(Msg("Tweet", name))
        boss == [name |-> name,
                 level |-> IF parse_level(name) = NoLevel
                           THEN DEFAULT_BOSS_LEVEL ELSE parse_level(name),
                 image |-> info.image,
                 language |-> info.language,
                 translations |-> {}]
        w2 == SendGlobal(w, Adapt(Msg("BossUpdate", boss)))
        w4 == IF boss.image # NoImage THEN request(w2, name, boss.image) ELSE w2
        recent_tweets == CircularBufferWithCapacity(tweet_history_size)
    IN  IF PushPanics(recent_tweets)
        THEN [w4 EXCEPT !.status = "panicked"]
        ELSE update_cached_boss_list(
               [w4 EXCEPT !.bosses = MapPut(@, name,
                   [boss |-> boss,
                    image_hash |-> NoHash,
                    broadcast |-> BroadcastNew,
                    recent_tweets |-> CircularBufferPush(recent_tweets, name)])])

\* new-boss branch that sends the tweet to the promoted followers before it
\* broadcasts the BossUpdate
RaidInfoVacantTweetFirst(w, info) ==
    LET name == info.boss_name
        m == Adapt(Msg("Tweet", name))
        pending == IF name \in DOMAIN w.requested_bosses
                   THEN w.requested_bosses[name] ELSE BroadcastNew
        w1 == [w EXCEPT !.requested_bosses = MapDel(@, name)]
        boss == [name |-> name,
                 level |-> IF parse_level(name) = NoLevel
                           THEN DEFAULT_BOSS_LEVEL ELSE parse_level(name),
                 image |-> info.image,
                 language |-> info.language,
                 translations |-> {}]
        broadcast == BroadcastMaybeSend(pending, m # None)
        w2 == [w1 EXCEPT !.obs = ObsBroadcast(@, pending, m)]
        w3 == SendGlobal(w2, Adapt(Msg("BossUpdate", boss)))
        w4 == IF boss.image # NoImage THEN request(w3, name, boss.image) ELSE w3
        recent_tweets == CircularBufferWithCapacity(tweet_history_size)
    IN  IF PushPanics(recent_tweets)
        THEN [w4 EXCEPT !.status = "panicked"]
        ELSE update_cached_boss_list(
               [w4 EXCEPT !.bosses = MapPut(@, name,
                   [boss |-> boss,
                    image_hash |-> NoHash,
                    broadcast |-> broadcast,
                    recent_tweets |-> CircularBufferPush(recent_tweets, name)])])

\* Worker::handle_raid_info, Entry::Vacant
RaidInfoVacant(w, info) ==
    LET name == info.boss_name
        m == Adapt(Msg("Tweet", name))
        pending == IF name \in DOMAIN w.requested_bosses
                   THEN w.requested_bosses[name] ELSE BroadcastNew
        w1 == [w EXCEPT !.requested_bosses = MapDel(@, name)]
        boss == [name |-> name,
                 level |-> IF parse_level(name) = NoLevel
                           THEN DEFAULT_BOSS_LEVEL ELSE parse_level(name),
                 image |-> info.image,
                 language |-> info.language,
                 translations |-> {}]
        w2 == SendGlobal(w1, Adapt(Msg("BossUpdate", boss)))
        broadcast == BroadcastMaybeSend(pending, m # None)
        w3 == [w2 EXCEPT !.obs = ObsBroadcast(@, pending, m)]
        w4 == IF boss.image # NoImage THEN request(w3, name, boss.image) ELSE w3
        recent_tweets == CircularBufferWithCapacity(tweet_history_size)
    IN  IF PushPanics(recent_tweets)
        THEN [w4 EXCEPT !.status = "panicked"]
        ELSE update_cached_boss_list(
               [w4 EXCEPT !.bosses = MapPut(@, name,
                   [boss |-> boss,
                    image_hash |-> NoHash,
                    broadcast |-> broadcast,
                    recent_tweets |-> CircularBufferPush(recent_tweets, name)])])

\* the translations of a boss, none if it has no entry
TranslationsOf(n) == IF n \in DOMAIN bosses THEN bosses[n].boss.translations ELSE {}

\* Worker::handle_raid_info
handle_raid_info(w, info, order) ==
    LET w0 == [w EXCEPT !.metrics = inc_tweet_count(@, info.boss_name)] IN
    IF info.boss_name \in DOMAIN w0.bosses
    THEN RaidInfoOccupied(w0, info, order)
    ELSE RaidInfoVacant(w0, info)

\* the loop over self.bosses.values_mut() of handle_image_hash, todo being
\* the entries in the order the loop comes to them
RECURSIVE HashScan(_, _, _, _)
HashScan(w, todo, boss_name, image_hash) ==
    IF todo = <<>>
    THEN w
    ELSE LET n == Head(todo)
             e == w.bosses[n]
             me == w.bosses[boss_name]
             w1 == IF /\ e.boss.level = me.boss.level
                      /\ e.boss.language # me.boss.language
                      /\ e.image_hash = image_hash
                   THEN LET w0 == [w EXCEPT !.bosses[n].boss.translations = @ \cup {boss_name}]
                        IN SendGlobal(w0, Adapt(Msg("BossUpdate", w0.bosses[n].boss)))
                   ELSE w
         IN HashScan(w1, Tail(todo), boss_name, image_hash)

\* the entries handle_image_hash collects in matches
HashMatches(w, boss_name, image_hash) ==
    {n \in DOMAIN w.bosses :
        /\ w.bosses[n].boss.level = w.bosses[boss_name].boss.level
        /\ w.bosses[n].boss.language # w.bosses[boss_name].boss.language
        /\ w.bosses[n].image_hash = image_hash}

\* handle_image_hash that links the matches to the boss but not the boss to
\* its matches
handle_image_hash_one_way(w, boss_name, image_hash, visit) ==
    IF boss_name \notin DOMAIN w.bosses
    THEN w
    ELSE LET w1 == [w EXCEPT !.bosses[boss_name].image_hash = image_hash]
             matches == HashMatches(w1, boss_name, image_hash)
             w2 == HashScan(w1, visit, boss_name, image_hash)
         IN IF matches # {}
            THEN update_cached_boss_list(
                   SendGlobal(w2, Adapt(Msg("BossUpdate", w2.bosses[boss_name].boss))))
            ELSE w2

\* Worker::handle_image_hash; visit is the order in which the HashMap of the
\* bosses iterates, which is any order
handle_image_hash(w, boss_name, image_hash, visit) ==
    IF boss_name \notin DOMAIN w.bosses
    THEN w
    ELSE LET w1 == [w EXCEPT !.bosses[boss_name].image_hash = image_hash]
             matches == HashMatches(w1, boss_name, image_hash)
             w2 == HashScan(w1, visit, boss_name, image_hash)
         IN IF matches # {}
            THEN LET w3 == [w2 EXCEPT !.bosses[boss_name].boss.translations = @ \cup matches]
                 IN update_cached_boss_list(
                      SendGlobal(w3, Adapt(Msg("BossUpdate", w3.bosses[boss_name].boss))))
            ELSE w2

\* the retain pass of remove_bosses over the entries the predicate matches,
\* todo being these entries in the order the pass comes to them
RECURSIVE RemoveEach(_, _)
RemoveEach(w, todo) ==
    IF todo = <<>>
    THEN w
    ELSE LET n == Head(todo)
             w1 == SendGlobal(w, Adapt(Msg("BossRemove", n)))
             w2 == IF DOMAIN w1.bosses[n].broadcast # {}
                   THEN [w1 EXCEPT !.requested_bosses =
                                      MapPut(@, n, w1.bosses[n].broadcast)]
                   ELSE w1
         IN RemoveEach([w2 EXCEPT !.bosses = MapDel(@, n),
                                  !.metrics = remove_boss(@, n)], Tail(todo))

\* the entries of visit that are in f, in the order of visit
Matching(visit, f) ==
    LET in_f(n) == n \in f IN SelectSeq(visit, in_f)

\* remove_bosses with the sense of the predicate inverted
remove_bosses_inverted(w, f, visit) ==
    RemoveEach(w, Matching(visit, (DOMAIN w.bosses) \ f))

\* Worker::remove_bosses; the predicate f is the set of names it accepts,
\* visit the order in which HashMap::retain visits the entries of bosses,
\* which is any order
remove_bosses(w, f, visit) == RemoveEach(w, Matching(visit, f))

(***************************************************************************)
(* Events of the control channel (src/client/mod.rs, enum Event). The      *)
(* fields src, fol and pre are history: which call enqueued the event      *)
(* ("api", "drop" for Drop of a handle that went out of scope,             *)
(* "unsubscribe" for Subscription::unsubscribe and the Drop it ends with), *)
(* for the Unsubscribe of a Drop the bosses the handle followed, and for   *)
(* the events of a Drop the size the group had when the handle dropped.    *)
(***************************************************************************)
Ev(type, id, name, sub, f, src, fol, pre) ==
    [type |-> type, id |-> id, name |-> name, sub |-> sub, f |-> f,
     src |-> src, fol |-> fol, pre |-> pre]

SubscriberSubscribe(s) == Ev("SubscriberSubscribe", NoId, NoName, s, {}, "api", {}, 0)
SubscriberUnsubscribe(id, src, fol, pre) ==
    Ev("SubscriberUnsubscribe", id, NoName, NoSub, {}, src, fol, pre)
SubscriberFollow(id, n) == Ev("SubscriberFollow", id, n, NoSub, {}, "api", {}, 0)
SubscriberUnfollow(id, n, src, pre) == Ev("SubscriberUnfollow", id, n, NoSub, {}, src, {}, pre)
SubscriberGetBosses(id) == Ev("SubscriberGetBosses", id, NoName, NoSub, {}, "api", {}, 0)
SubscriberGetTweets(id, n) == Ev("SubscriberGetTweets", id, n, NoSub, {}, "api", {}, 0)
SubscriberHeartbeat == Ev("SubscriberHeartbeat", NoId, NoName, NoSub, {}, "api", {}, 0)
ClientRemoveBosses(f) == Ev("ClientRemoveBosses", NoId, NoName, NoSub, f, "api", {}, 0)

\* the events that carry the oneshot Sender of a request made with
\* Client::request (Client::bosses, tweets, export_metadata, export_metrics)
Requests == {"ClientGetBosses", "ClientGetTweets", "ClientExportMetadata",
             "ClientExportMetrics"}
\* boss_name is the argument of Client::tweets, NoName for the others
ClientRequestEvent(r, boss_name) == Ev(r, NoId, boss_name, NoSub, {}, "api", {}, 0)

NoHandle == [st |-> "free", id |-> NoId, following |-> {}]

\* the subscriber objects some group or queued event still holds
Held ==
    Range(subscribers)
      \cup UNION {Range(bosses[n].broadcast) : n \in DOMAIN bosses}
      \cup UNION {Range(requested_bosses[n]) : n \in DOMAIN requested_bosses}
      \cup {ctl[i].sub : i \in 1..Len(ctl)}

(***************************************************************************)
(* src/client/client.rs and src/client/subscription.rs: the callers        *)
(***************************************************************************)
\* Client::send for the events of one call: unbounded_send appends them to
\* whatever the channel holds, whether or not the worker still runs; once
\* the receiver is gone the send fails, the error is ignored and the events
\* are dropped
Enqueue(evs) ==
    /\ Len(ctl) < MaxQueue
    /\ ctl' = IF status = "dropped" THEN ctl ELSE ctl \o evs
    /\ last' = [type |-> "call"]
    /\ UNCHANGED requests

\* Client::subscribe with a subscriber object not in use; an event dropped
\* by the send takes its Sender along, and the AsyncResult resolves with
\* Closed
ClientSubscribe(s) ==
    /\ handles[s].st = "free"
    /\ s \notin Held \cup broken \cup obs.failed
    /\ Enqueue(<<SubscriberSubscribe(s)>>)
    /\ handles' = [handles EXCEPT ![s].st =
                      IF status = "dropped" THEN "closed" ELSE "pending"]
    /\ UNCHANGED <<workerVars, unitVars, pipeVars, broken, obs>>

\* the caller drops the AsyncResult of Client::subscribe before the worker
\* has answered it: the oneshot Receiver is gone
AsyncResultDrop(s) ==
    /\ handles[s].st = "pending"
    /\ handles' = [handles EXCEPT ![s].st = "abandoned"]
    /\ last' = [type |-> "call"]
    /\ UNCHANGED <<workerVars, unitVars, pipeVars, ctl, requests, broken, obs>>

\* Subscription::follow
SubscriptionFollow(s, n) ==
    /\ handles[s].st = "live"
    /\ Enqueue(<<SubscriberFollow(handles[s].id, n)>>)
    /\ handles' = [handles EXCEPT ![s].following = @ \cup {n}]
    /\ UNCHANGED <<workerVars, unitVars, pipeVars, broken, obs>>

\* Subscription::unfollow
SubscriptionUnfollow(s, n) ==
    /\ handles[s].st = "live"
    /\ Enqueue(<<SubscriberUnfollow(handles[s].id, n, "api", 0)>>)
    /\ handles' = [handles EXCEPT ![s].following = @ \ {n}]
    /\ UNCHANGED <<workerVars, unitVars, pipeVars, broken, obs>>

\* Subscription::get_bosses
SubscriptionGetBosses(s) ==
    /\ handles[s].st = "live"
    /\ Enqueue(<<SubscriberGetBosses(handles[s].id)>>)
    /\ UNCHANGED <<workerVars, unitVars, pipeVars, handles, broken, obs>>

\* Subscription::get_tweets
SubscriptionGetTweets(s, n) ==
    /\ handles[s].st = "live"
    /\ Enqueue(<<SubscriberGetTweets(handles[s].id, n)>>)
    /\ UNCHANGED <<workerVars, unitVars, pipeVars, handles, broken, obs>>

\* the follower group of a boss, in the catalog bs or the pending table rq
FollowersIn(bs, rq, n) ==
    IF n \in DOMAIN bs THEN bs[n].broadcast
    ELSE IF n \in DOMAIN rq THEN rq[n]
    ELSE BroadcastNew
\* Broadcast::subscriber_count
Size(g) == Cardinality(DOMAIN g)

\* the events of Drop for Subscription: an Unfollow for each boss of
\* following, in the order the set is drained, then non_consuming_unsubscribe
DropEvents(h, order, src) ==
    [i \in 1..Len(order) |->
        SubscriberUnfollow(h.id, order[i], src,
                           Size(FollowersIn(bosses, requested_bosses, order[i])))]
      \o <<SubscriberUnsubscribe(h.id, src, h.following, Size(subscribers))>>

\* Drop for Subscription, when the handle goes out of scope
SubscriptionDrop(s) ==
    /\ handles[s].st = "live"
    /\ \E order \in Orders(handles[s].following) :
          Enqueue(DropEvents(handles[s], order, "drop"))
    /\ handles' = [handles EXCEPT ![s] = NoHandle]
    /\ UNCHANGED <<workerVars, unitVars, pipeVars, broken, obs>>

\* the events of Subscription::unsubscribe(self): non_consuming_unsubscribe,
\* then self goes out of scope and Drop runs
UnsubscribeEvents(h, order) ==
    <<SubscriberUnsubscribe(h.id, "unsubscribe", {}, Size(subscribers))>>
      \o DropEvents(h, order, "unsubscribe")

\* Subscription::unsubscribe
SubscriptionUnsubscribe(s) ==
    /\ handles[s].st = "live"
    /\ Len(id_pool.available) + 2 <= MaxFree
    /\ \E order \in Orders(handles[s].following) :
          Enqueue(UnsubscribeEvents(handles[s], order))
    /\ handles' = [handles EXCEPT ![s] = NoHandle]
    /\ UNCHANGED <<workerVars, unitVars, pipeVars, broken, obs>>

\* Client::heartbeat
ClientHeartbeat ==
    /\ Enqueue(<<SubscriberHeartbeat>>)
    /\ UNCHANGED <<workerVars, unitVars, pipeVars, handles, broken, obs>>

\* Client::remove_bosses
ClientRemove(f) ==
    /\ Enqueue(<<ClientRemoveBosses(f)>>)
    /\ UNCHANGED <<workerVars, unitVars, pipeVars, handles, broken, obs>>

\* a subscriber's send starts to fail (its receiving end went away)
SubscriberBreaks(s) ==
    /\ status = "running"
    /\ handles[s].st = "live"
    /\ s \notin broken
    /\ broken' = broken \cup {s}
    /\ UNCHANGED <<workerVars, unitVars, clientVars, pipeVars, last, obs>>

(***************************************************************************)
(* Worker::poll and Worker::handle_event: one action for each event.       *)
(***************************************************************************)
\* the next event of the control channel is of this type
Next1(type) ==
    /\ status = "running"
    /\ ctl # <<>>
    /\ Head(ctl).type = type

\* the control event is taken and handled, leaving the worker as w; for a
\* ClientRemoveBosses, last keeps in f the entries the predicate matched
Handled(w) ==
    /\ Commit(w)
    /\ ctl' = Tail(ctl)
    /\ last' = [Head(ctl) EXCEPT !.f = @ \cap DOMAIN bosses]
    /\ UNCHANGED <<broken, outstanding, fq, concurrency, events>>

\* what the SubscriberSubscribe arm does with the Subscription it made for
\* subscriber s with id, w being the worker after Worker::subscribe: if the
\* caller still holds the AsyncResult, sender.send hands it over; if not,
\* the send fails, its error is ignored and the Subscription is dropped in
\* the worker's turn, where its Drop sends the Unsubscribe of its id
SubscriptionSent(w, s, id) ==
    IF handles[s].st = "pending"
    THEN [handle |-> [st |-> "live", id |-> id, following |-> {}], evs |-> <<>>]
    ELSE [handle |-> NoHandle,
          evs |-> <<SubscriberUnsubscribe(id, "drop", {}, Cardinality(DOMAIN w.subscribers))>>]

\* Event::SubscriberSubscribe: the Subscription is sent back to the caller
WSubscribe ==
    /\ Next1("SubscriberSubscribe")
    /\ LET w == subscribe(W, Head(ctl).sub)
           sent == SubscriptionSent(w, Head(ctl).sub, SubscribeId(W))
       IN  /\ Commit(w)
           /\ ctl' = Tail(ctl) \o sent.evs
           /\ handles' = [handles EXCEPT ![Head(ctl).sub] = sent.handle]
    /\ last' = Head(ctl)
    /\ UNCHANGED <<requests, broken, outstanding, fq, concurrency, events>>

\* Event::SubscriberUnsubscribe
WUnsubscribe ==
    /\ Next1("SubscriberUnsubscribe")
    /\ Handled(unsubscribe(W, Head(ctl).id))
    /\ UNCHANGED <<handles, requests>>

\* Event::SubscriberFollow
WFollow ==
    /\ Next1("SubscriberFollow")
    /\ Handled(follow(W, Head(ctl).id, Head(ctl).name))
    /\ UNCHANGED <<handles, requests>>

\* Event::SubscriberUnfollow
WUnfollow ==
    /\ Next1("SubscriberUnfollow")
    /\ Handled(unfollow(W, Head(ctl).id, Head(ctl).name))
    /\ UNCHANGED <<handles, requests>>

\* Subscriber::maybe_send to the subscriber registered under id, if any;
\* the result of the send is discarded
SendDirect(w, id, m) ==
    IF id \in DOMAIN w.subscribers
    THEN [w EXCEPT !.obs = ObsDirect(@, w.subscribers[id], m)]
    ELSE w

\* Event::SubscriberGetBosses
WGetBosses ==
    /\ Next1("SubscriberGetBosses")
    /\ Handled(SendDirect(W, Head(ctl).id, cached_boss_list))
    /\ UNCHANGED <<handles, requests>>

\* the TweetList message for a boss
TweetList(w, boss_name) ==
    Msg("TweetList", IF boss_name \in DOMAIN w.bosses
                     THEN w.bosses[boss_name].recent_tweets.buffer ELSE <<>>)

\* Event::SubscriberGetTweets
WGetTweets ==
    /\ Next1("SubscriberGetTweets")
    /\ Handled(SendDirect(W, Head(ctl).id, Adapt(TweetList(W, Head(ctl).name))))
    /\ UNCHANGED <<handles, requests>>

\* Event::SubscriberHeartbeat; the cached heartbeat is Adapt(Heartbeat)
WHeartbeat ==
    /\ Next1("SubscriberHeartbeat")
    /\ Handled(SendGlobal(W, Adapt(Msg("Heartbeat", 0))))
    /\ UNCHANGED <<handles, requests>>

\* Event::ClientRemoveBosses
WRemoveBosses ==
    /\ Next1("ClientRemoveBosses")
    /\ \E visit \in Orders(DOMAIN bosses) : Handled(remove_bosses(W, Head(ctl).f, visit))
    /\ UNCHANGED <<handles, requests>>

\* the posts the upstream stream delivers
RaidInputs == [boss_name : Names, language : Languages, image : Images]

\* Event::NewRaidInfo, taken from the post stream
WNewRaid(info) ==
    /\ status = "running"
    /\ Len(hreq) < MaxReq
    /\ TweetCount(metrics, info.boss_name) < MaxTweets
    /\ \E order \in Orders(TranslationsOf(info.boss_name)) :
          Commit(handle_raid_info(W, info, order))
    /\ last' = [type |-> "NewRaidInfo", name |-> info.boss_name,
                new |-> info.boss_name \notin DOMAIN bosses]
    /\ UNCHANGED <<clientVars, broken, outstanding, fq, concurrency, events>>

\* the post stream ends with no error chained to it: the worker future
\* completes normally
WStreamEndSilent ==
    /\ status = "running"
    /\ status' = "completed"
    /\ last' = [type |-> "Closed"]
    /\ UNCHANGED <<id_pool, subscribers, bosses, requested_bosses,
                   cached_boss_list, tweet_history_size, filter_map_message, metrics,
                   unitVars,
                   clientVars, pipeVars, broken, obs>>

\* the post stream ends: the chained Once yields Err(Closed), which
\* Worker::poll returns
WStreamEnd ==
    /\ status = "running"
    /\ status' = "closed"
    /\ last' = [type |-> "Closed"]
    /\ UNCHANGED <<id_pool, subscribers, bosses, requested_bosses,
                   cached_boss_list, tweet_history_size, filter_map_message, metrics,
                   unitVars,
                   clientVars, pipeVars, broken, obs>>

(***************************************************************************)
(* src/client/builder.rs, line 208: Worker.events is                       *)
(* stream_events.select(rx.select(hash_events)). Stream::select of         *)
(* futures 0.1 keeps a flag. A poll takes first the stream the flag names  *)
(* (stream1 when it is false) and flips the flag; an item of that stream   *)
(* is returned at once. Otherwise the other stream is polled, and an item  *)
(* it yields flips the flag back, since the first stream has not ended.    *)
(* An error of either stream leaves poll through the ? operator, the flag  *)
(* staying flipped. What a stream has for a poll is "item", "err" or       *)
(* "none" (NotReady).                                                      *)
(***************************************************************************)
\* the Select combinators as ClientBuilder::build makes them, no fetch done
EventsNew == [flag |-> FALSE, inner_flag |-> FALSE, ready |-> <<>>]

\* a Select that always takes stream1 first
SelectPollFirstWins(flag, out1, out2) ==
    IF out1 # "none" THEN [from |-> 1, flag |-> flag, err |-> out1 = "err"]
    ELSE IF out2 # "none" THEN [from |-> 2, flag |-> flag, err |-> out2 = "err"]
    ELSE [from |-> 0, flag |-> flag, err |-> FALSE]

\* Select::poll on two streams that have not ended, given what each of them
\* has: the stream the result comes from (0 for NotReady), the flag after,
\* and whether the result is the stream's error
SelectPoll(flag, out1, out2) ==
    LET a == IF flag THEN 2 ELSE 1
        b == IF flag THEN 1 ELSE 2
        a_out == IF flag THEN out2 ELSE out1
        b_out == IF flag THEN out1 ELSE out2
    IN  IF a_out # "none" THEN [from |-> a, flag |-> ~flag, err |-> a_out = "err"]
        ELSE IF b_out = "item" THEN [from |-> b, flag |-> flag, err |-> FALSE]
        ELSE IF b_out = "err" THEN [from |-> b, flag |-> ~flag, err |-> TRUE]
        ELSE [from |-> 0, flag |-> ~flag, err |-> FALSE]

\* self.events.poll() in Worker::poll: the outer Select has the post stream
\* as stream1 and the inner Select as stream2; the inner Select has the
\* control channel as stream1 and the hash results as stream2. The inner
\* Select is polled when the outer one reaches it: first when the outer
\* flag is set, and otherwise when the post stream has no item. The hash
\* results are polled when the inner Select reaches them: first when the
\* inner flag is set, and otherwise when the control channel is empty.
\* post_out is what the post stream has: "none", "item" for a post, or
\* "err" when it has ended and its chained Once yields Err(Closed). The
\* control channel has an event or none. The hash results have the oldest
\* completed fetch of ev.ready, a hash or the error of a fetch that failed;
\* when none has completed before the poll they have fresh, what the
\* fetches in flight give when BufferUnordered polls them: "item" or "err"
\* of one that is done at this poll (one started by this very poll
\* included), "none" when all are still running.
EventsPoll(ev, post_out, ctl_ready, fresh) ==
    LET hash_out == IF ev.ready = <<>> THEN fresh
                    ELSE IF Head(ev.ready).ok THEN "item" ELSE "err"
        inner == SelectPoll(ev.inner_flag, IF ctl_ready THEN "item" ELSE "none",
                            hash_out)
        outer == SelectPoll(ev.flag, post_out,
                            IF inner.from = 0 THEN "none"
                            ELSE IF inner.err THEN "err" ELSE "item")
        inner_polled == ev.flag \/ post_out = "none"
    IN  [from |-> IF outer.from = 1 THEN "post"
                  ELSE IF outer.from = 0 THEN "none"
                  ELSE IF inner.from = 1 THEN "ctl" ELSE "hash",
         err |-> outer.err,
         flag |-> outer.flag,
         inner_flag |-> IF inner_polled THEN inner.flag ELSE ev.inner_flag,
         hash_polled |-> inner_polled /\ (ev.inner_flag \/ ~ctl_ready)]

(***************************************************************************)
(* src/image_hash/mod.rs: the hash pipeline                                *)
(***************************************************************************)
\* the state of the pipeline: the request channel, Inner.outstanding and
\* the futures BufferUnordered holds
Pipe(req, out, q) == [hreq |-> req, outstanding |-> out, fq |-> q]

\* the filling loop without the outstanding test of Inner::poll
RECURSIVE BufferFillNoDedup(_, _, _, _)
BufferFillNoDedup(req, out, q, amount) ==
    IF Len(q) >= amount \/ req = <<>>
    THEN Pipe(req, out, q)
    ELSE BufferFillNoDedup(Tail(req), out \cup {Head(req)}, Append(q, Head(req)), amount)

\* the filling loop going on whatever the number of futures held
RECURSIVE BufferFillUnbounded(_, _, _, _)
BufferFillUnbounded(req, out, q, amount) ==
    IF req = <<>>
    THEN Pipe(req, out, q)
    ELSE IF Head(req) \in out
    THEN BufferFillUnbounded(Tail(req), out, q, amount)
    ELSE BufferFillUnbounded(Tail(req), out \cup {Head(req)}, Append(q, Head(req)), amount)

\* BufferUnordered::poll, its first half: while it holds fewer futures than
\* its amount it polls Inner. Inner::poll takes requests from the channel,
\* drops those whose name is outstanding and starts the first that is not;
\* with the channel empty it is NotReady and the loop ends.
RECURSIVE BufferFill(_, _, _, _)
BufferFill(req, out, q, amount) ==
    IF Len(q) >= amount \/ req = <<>>
    THEN Pipe(req, out, q)
    ELSE IF Head(req) \in out
    THEN BufferFill(Tail(req), out, q, amount)
    ELSE BufferFill(Tail(req), out \cup {Head(req)}, Append(q, Head(req)), amount)

\* a poll of the receiver that filled the buffer as f and found no fetch done
PolledNotReady(f) ==
    /\ status = "running"
    /\ f.hreq # hreq
    /\ hreq' = f.hreq
    /\ outstanding' = f.outstanding
    /\ fq' = f.fq
    /\ UNCHANGED <<status, id_pool, subscribers, bosses, requested_bosses,
                   cached_boss_list, tweet_history_size, filter_map_message, metrics,
                   unitVars,
                   clientVars, broken, concurrency, events, last, obs>>

\* the receiver polled with an Inner::poll that lacks the outstanding test
InnerPollNoDedup == PolledNotReady(BufferFillNoDedup(hreq, outstanding, fq, concurrency))

\* the receiver polled with a buffer that takes no account of its amount
InnerPollUnbounded == PolledNotReady(BufferFillUnbounded(hreq, outstanding, fq, concurrency))

\* ImageHashReceiver::poll when no fetch is done: BufferUnordered fills up
\* from Inner::poll and returns NotReady
InnerPoll == PolledNotReady(BufferFill(hreq, outstanding, fq, concurrency))

\* the places of BufferUnordered's queue
Slots == 1..MAX_CONCURRENT_IMAGE_HASHER_REQUESTS

\* fq without its i-th future
Without(q, i) == SubSeq(q, 1, i - 1) \o SubSeq(q, i + 1, Len(q))

\* ImageHashReceiver::poll when the future of name resolved to a hash
ReceiverOk(out, name) == out \ {name}

\* ImageHashReceiver::poll when the future of name resolved to an error:
\* try_ready! returns before outstanding.remove
ReceiverErr(out, name) == out

\* a fetch succeeds: the receiver, having filled its buffer, yields the
\* result of one of the futures it holds (one started in this very poll
\* included), and the worker handles Event::NewImageHash
WImageHash(i, image_hash) ==
    /\ status = "running"
    /\ LET f == BufferFill(hreq, outstanding, fq, concurrency)
       IN  /\ i \in 1..Len(f.fq)
           /\ outstanding' = ReceiverOk(f.outstanding, f.fq[i])
           /\ fq' = Without(f.fq, i)
           /\ \E visit \in Orders(DOMAIN bosses) :
                 Commit(handle_image_hash([W EXCEPT !.hreq = f.hreq], f.fq[i],
                                          image_hash, visit))
           /\ last' = [type |-> "NewImageHash", name |-> f.fq[i],
                       image_hash |-> image_hash,
                       matched |-> /\ f.fq[i] \in DOMAIN bosses
                                   /\ HashMatches([bosses |->
                                          [bosses EXCEPT ![f.fq[i]].image_hash = image_hash]],
                                          f.fq[i], image_hash) # {}]
    /\ UNCHANGED <<clientVars, broken, concurrency, events>>

\* a fetch fails: the receiver, having filled its buffer, yields Err, which
\* FilterMap, Select and the try_ready! of Worker::poll hand on as the
\* result of the worker future
WHashError(i) ==
    /\ status = "running"
    /\ LET f == BufferFill(hreq, outstanding, fq, concurrency)
       IN  /\ i \in 1..Len(f.fq)
           /\ hreq' = f.hreq
           /\ outstanding' = ReceiverErr(f.outstanding, f.fq[i])
           /\ fq' = Without(f.fq, i)
           /\ last' = [type |-> "HashError", name |-> f.fq[i]]
    /\ status' = "failed"
    /\ UNCHANGED <<id_pool, subscribers, bosses, requested_bosses,
                   cached_boss_list, tweet_history_size, filter_map_message, metrics,
                   unitVars,
                   clientVars, broken, concurrency, events, obs>>

(***************************************************************************)
(* ClientBuilder::build (src/client/builder.rs)                            *)
(***************************************************************************)
\* the adapters given to filter_map_message: one that maps every message,
\* and the |_| None of from_hyper_client
Adapters == {Kinds, {}}

\* the worker built with a history size, an adapter, a metrics sink
\* (with_metrics) and the entries of with_bosses (seeds, the RaidBossMetadata
\* of bosses with different names), its hash pipeline made by
\* image_hash::channel(image_hasher, amount)
BuildWith(history_size, adapter, amount, sink, seeds) ==
    /\ status = "running"
    /\ id_pool = IdPoolNew
    /\ subscribers = BroadcastNew
    /\ bosses = [n \in {d.boss.name : d \in seeds} |->
                   LET d == CHOOSE x \in seeds : x.boss.name = n IN
                   [boss |-> d.boss,
                    image_hash |-> d.image_hash,
                    broadcast |-> BroadcastNew,
                    recent_tweets |-> CircularBufferWithCapacity(history_size)]]
    /\ requested_bosses = EmptyMap
    /\ tweet_history_size = history_size
    /\ filter_map_message = adapter
    /\ metrics = sink
    /\ cached_boss_list = Adapt(Msg("BossList", {d.boss : d \in seeds}))
    /\ ctl = <<>>
    /\ handles = [s \in Subs |-> NoHandle]
    /\ requests = [r \in Requests |-> "none"]
    /\ broken = {}
    /\ hreq = <<>>
    /\ outstanding = {}
    /\ fq = <<>>
    /\ concurrency = amount
    /\ events = EventsNew
    /\ last = [type |-> "none"]
    /\ obs = Obs0

\* the worker of a builder made with ClientBuilder::new, whose sink is
\* metrics::NoOp and which is given no bosses
Build(history_size, adapter, amount) ==
    BuildWith(history_size, adapter, amount, NoOp, {})

\* no component is exercised on its own
UnitIdle ==
    /\ ring = CircularBufferWithCapacity(1)
    /\ pushed = <<>>
    /\ lent = <<>>
    /\ backlog = BacklogWithCapacity(1)
    /\ media = NoMedia
    /\ image = Unparsed

(***************************************************************************)
(* Spec: subscribers and their handles. Every message is adapted. Posts    *)
(* arrive for one boss only and carry no image: the other boss stays one   *)
(* that subscribers wait for, and the hash pipeline stays idle.            *)
(***************************************************************************)
LanguageOf(n) == IF n = NameJa THEN "Japanese" ELSE "English"
Posted == {NameJa}
PlainPosts == {[boss_name |-> n, language |-> LanguageOf(n), image |-> NoImage] : n \in Posted}

Init == Build(MaxHist, Kinds, MAX_CONCURRENT_IMAGE_HASHER_REQUESTS) /\ UnitIdle

Next ==
    \/ \E s \in Subs : ClientSubscribe(s)
    \/ \E s \in Subs, n \in Names : SubscriptionFollow(s, n)
    \/ \E s \in Subs, n \in Names : SubscriptionUnfollow(s, n)
    \/ \E s \in Subs : SubscriptionDrop(s)
    \/ \E f \in {Posted, Names} : ClientRemove(f)
    \/ \E s \in Unreliable : SubscriberBreaks(s)
    \/ WSubscribe
    \/ WUnsubscribe
    \/ WFollow
    \/ WUnfollow
    \/ WRemoveBosses
    \/ \E info \in PlainPosts : WNewRaid(info)

Spec == Init /\ [][Next]_vars

(***************************************************************************)
(* SpecCatalog: the catalog, the posts with their images and languages,    *)
(* and the hash pipeline; no subscribers.                                  *)
(***************************************************************************)
InitCatalog ==
    /\ \E h \in 0..MaxHist, a \in Adapters :
          Build(h, a, MAX_CONCURRENT_IMAGE_HASHER_REQUESTS)
    /\ UnitIdle

NextCatalog ==
    \/ \E f \in {{NameJa}, Names} : ClientRemove(f)
    \/ WRemoveBosses
    \/ \E info \in RaidInputs : WNewRaid(info)
    \/ WStreamEnd
    \/ InnerPoll
    \/ \E i \in Slots, h \in Hashes : WImageHash(i, h)
    \/ \E i \in Slots : WHashError(i)

SpecCatalog == InitCatalog /\ [][NextCatalog]_vars

(***************************************************************************)
(* SpecRemove: subscribers that follow bosses while posts without images   *)
(* arrive for every boss and RemoveBosses is called with any predicate;    *)
(* the handles are kept.                                                   *)
(***************************************************************************)
AllPlainPosts == {[boss_name |-> n, language |-> LanguageOf(n), image |-> NoImage] : n \in Names}

NextRemove ==
    \/ \E s \in Subs : ClientSubscribe(s)
    \/ \E s \in Subs, n \in Names : SubscriptionFollow(s, n)
    \/ \E f \in (SUBSET Names) \ {{}} : ClientRemove(f)
    \/ \E s \in Unreliable : SubscriberBreaks(s)
    \/ WSubscribe
    \/ WFollow
    \/ WRemoveBosses
    \/ \E info \in AllPlainPosts : WNewRaid(info)

SpecRemove == Init /\ [][NextRemove]_vars

(***************************************************************************)
(* SpecHash: the hash pipeline of image_hash::channel on its own, with a   *)
(* caller of ImageHashSender::request and a consumer that keeps polling    *)
(* the ImageHashReceiver stream.                                           *)
(***************************************************************************)
\* amounts 1..MaxAmount are given to image_hash::channel
MaxAmount == 2
\* longest hash request channel the caller builds up
MaxPending == 2

\* ImageHashSender::request by the holder of the sender
HashRequest(n, image_url) ==
    /\ Len(hreq) < MaxPending
    /\ hreq' = request(W, n, image_url).hreq
    /\ last' = [type |-> "call"]
    /\ UNCHANGED <<workerVars, unitVars, clientVars, broken, outstanding, fq, concurrency, events, obs>>

\* ImageHashReceiver::poll yields Ok(Ready(Some(result)))
PollOk(i, image_hash) ==
    /\ LET f == BufferFill(hreq, outstanding, fq, concurrency)
       IN  /\ i \in 1..Len(f.fq)
           /\ hreq' = f.hreq
           /\ outstanding' = ReceiverOk(f.outstanding, f.fq[i])
           /\ fq' = Without(f.fq, i)
           /\ last' = [type |-> "HashResult", name |-> f.fq[i], image_hash |-> image_hash]
    /\ UNCHANGED <<workerVars, unitVars, clientVars, broken, concurrency, events, obs>>

\* ImageHashReceiver::poll yields Err
PollErr(i) ==
    /\ LET f == BufferFill(hreq, outstanding, fq, concurrency)
       IN  /\ i \in 1..Len(f.fq)
           /\ hreq' = f.hreq
           /\ outstanding' = ReceiverErr(f.outstanding, f.fq[i])
           /\ fq' = Without(f.fq, i)
           /\ last' = [type |-> "HashError", name |-> f.fq[i]]
    /\ UNCHANGED <<workerVars, unitVars, clientVars, broken, concurrency, events, obs>>

InitHash == (\E k \in 1..MaxAmount : Build(MaxHist, Kinds, k)) /\ UnitIdle

NextHash ==
    \/ \E n \in Names, u \in {"url", BadUrl} : HashRequest(n, u)
    \/ InnerPoll
    \/ \E i \in Slots, h \in Hashes : PollOk(i, h)
    \/ \E i \in Slots : PollErr(i)

SpecHash == InitHash /\ [][NextHash]_vars

(***************************************************************************)
(* SpecRing: a CircularBuffer on its own, as the tests of                  *)
(* src/circular_buffer.rs use it: made with a capacity, then pushed into.  *)
(***************************************************************************)
\* capacities 1..MaxCap are given to CircularBuffer::with_capacity
MaxCap == 3
\* longest sequence of pushes
MaxPushes == 5
\* the items pushed
Items == {"a", "b"}

\* CircularBuffer::as_unordered_slice
as_unordered_slice(b) == b.buffer

\* CircularBuffer::push by the holder of the buffer
RingPush(item) ==
    /\ Len(pushed) < MaxPushes
    /\ ~PushPanics(ring)
    /\ ring' = CircularBufferPush(ring, item)
    /\ pushed' = Append(pushed, item)
    /\ UNCHANGED <<workerVars, clientVars, pipeVars, broken, last, obs, lent,
                   backlog, media, image>>

InitRing ==
    /\ Build(MaxHist, Kinds, MAX_CONCURRENT_IMAGE_HASHER_REQUESTS)
    /\ \E c \in 1..MaxCap : ring = CircularBufferWithCapacity(c)
    /\ pushed = <<>>
    /\ lent = <<>>
    /\ backlog = BacklogWithCapacity(1)
    /\ media = NoMedia
    /\ image = Unparsed

NextRing == \E item \in Items : RingPush(item)

SpecRing == InitRing /\ [][NextRing]_vars

(***************************************************************************)
(* SpecBacklog: a Backlog on its own, as the tests of src/backlog.rs use   *)
(* it: made with a capacity, then pushed into and asked for snapshots in   *)
(* any order. pushed holds the items pushed, oldest first; after a run of  *)
(* 2^32 pushes it holds the last of them, as many as the capacity.         *)
(***************************************************************************)
\* Backlog::push by the holder of the backlog
BacklogDoPush(item) ==
    /\ backlog.revision.hi = 0
    /\ backlog.revision.lo < MaxPushes
    /\ backlog' = BacklogPush(backlog, item)
    /\ pushed' = Append(pushed, item)
    /\ last' = [type |-> "push"]
    /\ UNCHANGED <<workerVars, clientVars, pipeVars, broken, obs, ring, lent, media, image>>

\* 2^32 pushes of one item without a snapshot in between
BacklogDoPushCycle(item) ==
    /\ backlog' = BacklogPushCycle(backlog, item)
    /\ pushed' = [i \in 1..backlog.capacity |-> item]
    /\ last' = [type |-> "push"]
    /\ UNCHANGED <<workerVars, clientVars, pipeVars, broken, obs, ring, lent, media, image>>

\* Backlog::snapshot by the holder of the backlog; last keeps what it returned
BacklogDoSnapshot ==
    /\ backlog' = BacklogSnapshot(backlog)
    /\ last' = [type |-> "snapshot", result |-> BacklogSnapshotItems(backlog)]
    /\ UNCHANGED <<workerVars, clientVars, pipeVars, broken, obs, ring, pushed, lent,
                   media, image>>

InitBacklog ==
    /\ Build(MaxHist, Kinds, MAX_CONCURRENT_IMAGE_HASHER_REQUESTS)
    /\ ring = CircularBufferWithCapacity(1)
    /\ pushed = <<>>
    /\ lent = <<>>
    /\ \E c \in 1..MaxCap : backlog = BacklogWithCapacity(c)
    /\ media = NoMedia
    /\ image = Unparsed

NextBacklog ==
    \/ \E item \in Items : BacklogDoPush(item)
    \/ \E item \in Items : BacklogDoPushCycle(item)
    \/ BacklogDoSnapshot

SpecBacklog == InitBacklog /\ [][NextBacklog]_vars

(***************************************************************************)
(* SpecPool: an IdPool on its own, as the test of src/id_pool.rs uses it;  *)
(* its caller recycles only ids it holds.                                  *)
(***************************************************************************)
\* the pool hands out ids below MaxIds
MaxIds == 4

\* IdPool::get by the holder of the pool; last keeps the id that the call
\* before it recycled, if that call was a recycle
PoolGet ==
    /\ id_pool.available # <<>> \/ id_pool.max_id < MaxIds
    /\ id_pool' = IdPoolGet(id_pool)
    /\ lent' = Append(lent, IdPoolGetId(id_pool))
    /\ last' = [type |-> "get", id |-> IdPoolGetId(id_pool),
                recycled |-> IF last.type = "recycle" THEN last.id ELSE NoId]
    /\ UNCHANGED <<status, subscribers, bosses, requested_bosses, cached_boss_list,
                   tweet_history_size, filter_map_message, metrics, clientVars, pipeVars,
                   broken, obs, ring, pushed, backlog, media, image>>

\* IdPool::recycle of the i-th id the caller holds
PoolRecycle(i) ==
    /\ i \in 1..Len(lent)
    /\ id_pool' = IdPoolRecycle(id_pool, lent[i])
    /\ lent' = Without(lent, i)
    /\ last' = [type |-> "recycle", id |-> lent[i]]
    /\ UNCHANGED <<status, subscribers, bosses, requested_bosses, cached_boss_list,
                   tweet_history_size, filter_map_message, metrics, clientVars, pipeVars,
                   broken, obs, ring, pushed, backlog, media, image>>

InitPool == Init

NextPool ==
    \/ PoolGet
    \/ \E i \in 1..MaxIds : PoolRecycle(i)

SpecPool == InitPool /\ [][NextPool]_vars

(***************************************************************************)
(* SpecRequest: the futures returned by Client::request and                *)
(* Client::subscribe, a worker that terminates, and the terminated worker  *)
(* being dropped by whatever ran it. handles[s].st = "pending" is the      *)
(* AsyncResult of a subscribe call, requests[r] that of the other          *)
(* requests: "none" (not made), "pending", "ok" (the worker sent the       *)
(* value) or "closed" (resolved with ErrorKind::Closed). The control       *)
(* channel is an unsync mpsc channel: the Worker owns the receiver and     *)
(* with it the queued events, each of which owns the oneshot Sender of its *)
(* request.                                                                *)
(***************************************************************************)
Terminated == status \in {"closed", "failed", "panicked"}

\* Client::request: the event carrying the oneshot Sender is queued with
\* unbounded_send, whose error is ignored. Once the receiver is gone the
\* send fails and the event is dropped there, its Sender with it: the
\* AsyncResult resolves with Closed at its first poll.
ClientRequest(r, boss_name) ==
    /\ requests[r] = "none"
    /\ IF status = "dropped"
          THEN /\ requests' = [requests EXCEPT ![r] = "closed"]
               /\ UNCHANGED ctl
          ELSE /\ Len(ctl) < MaxQueue
               /\ ctl' = Append(ctl, ClientRequestEvent(r, boss_name))
               /\ requests' = [requests EXCEPT ![r] = "pending"]
    /\ last' = [type |-> "call"]
    /\ UNCHANGED <<workerVars, unitVars, pipeVars, handles, broken, obs>>

\* a reply that is always the empty vector
ClientReplyEmpty(w, event, visit) == <<>>

\* the value the worker sends through the Sender of a request: the
\* RaidBoss of every entry, the recent tweets of a boss (none if it has no
\* entry), the boss_data of every entry; the export of the metrics is
\* represented by its name. visit is the order in which the values of the
\* HashMap of the bosses are collected, which is any order.
ClientReply(w, event, visit) ==
    CASE event.type = "ClientGetBosses" ->
            [i \in 1..Len(visit) |-> w.bosses[visit[i]].boss]
      [] event.type = "ClientGetTweets" ->
            IF event.name \in DOMAIN w.bosses
            THEN as_unordered_slice(w.bosses[event.name].recent_tweets)
            ELSE <<>>
      [] event.type = "ClientExportMetadata" ->
            [i \in 1..Len(visit) |-> [boss |-> w.bosses[visit[i]].boss,
                                      image_hash |-> w.bosses[visit[i]].image_hash]]
      [] OTHER -> <<"metrics">>

\* Event::ClientGetBosses, ClientGetTweets, ClientExportMetadata,
\* ClientExportMetrics: the worker sends the value through the Sender and
\* changes nothing of its own
WClientRequest ==
    /\ status = "running"
    /\ ctl # <<>>
    /\ Head(ctl).type \in Requests
    /\ Commit(W)
    /\ ctl' = Tail(ctl)
    /\ \E visit \in Orders(DOMAIN bosses) :
          last' = [type |-> Head(ctl).type, name |-> Head(ctl).name,
                   reply |-> ClientReply(W, Head(ctl), visit)]
    /\ requests' = [requests EXCEPT ![Head(ctl).type] = "ok"]
    /\ UNCHANGED <<handles, broken, outstanding, fq, concurrency, events>>

\* an AsyncResult that would ignore the loss of its Sender
AsyncResultStuck(st) == st

\* an AsyncResult whose Sender is dropped: poll maps the oneshot's Canceled
\* to ErrorKind::Closed
AsyncResultCanceled(st) == IF st = "pending" THEN "closed" ELSE st

\* the terminated Worker is dropped (the executor or combinator that polled
\* it releases a future that has resolved): its receiver goes, the queued
\* events are dropped and with them the Senders of the unhandled requests
WorkerDropped ==
    /\ Terminated
    /\ status' = "dropped"
    /\ ctl' = <<>>
    /\ handles' = [s \in Subs |->
                     [handles[s] EXCEPT !.st = AsyncResultCanceled(@)]]
    /\ requests' = [r \in Requests |-> AsyncResultCanceled(requests[r])]
    /\ last' = [type |-> "drop"]
    /\ UNCHANGED <<id_pool, subscribers, bosses, requested_bosses,
                   cached_boss_list, tweet_history_size, filter_map_message, metrics,
                   unitVars, pipeVars, broken, obs>>

NextRequest ==
    \/ \E s \in Subs : ClientSubscribe(s)
    \/ \E s \in Subs : AsyncResultDrop(s)
    \/ \E r \in Requests :
          ClientRequest(r, IF r = "ClientGetTweets" THEN NameJa ELSE NoName)
    \/ WSubscribe
    \/ WUnsubscribe
    \/ WClientRequest
    \/ WStreamEnd
    \/ WorkerDropped

SpecRequest == Init /\ [][NextRequest]_vars

\* a worker that has resolved is dropped, not kept
SpecRequestFair == SpecRequest /\ WF_vars(WorkerDropped)

(***************************************************************************)
(* SpecQuery: a client that asks for the bosses and for the tweets of a    *)
(* boss while posts arrive and bosses are removed. The posts name, besides *)
(* the two bosses of level 60, a boss whose name carries no level and one  *)
(* whose digits do not fit BossLevel. The worker is built with_bosses: the *)
(* catalog starts with the entries the caller gave, whose level is the     *)
(* caller's own and need not be the one its name carries.                  *)
(***************************************************************************)
NamePlain == [pre |-> "", digits |-> 0, space |-> FALSE, rest |-> "plain"]
NameHuge == [pre |-> "Lv", digits |-> 40000, space |-> TRUE, rest |-> "huge"]
QueryNames == {NameJa, NameEn, NamePlain, NameHuge}
QueryPosts == {[boss_name |-> n, language |-> LanguageOf(n), image |-> NoImage] : n \in QueryNames}

\* the RaidBossMetadata given to with_bosses: a boss whose level is the one
\* in its name, and one the caller gives level 20 under a name without level
QuerySeeds ==
    {[boss |-> [name |-> NameEn, level |-> 60, image |-> NoImage,
                language |-> "English", translations |-> {}],
      image_hash |-> NoHash],
     [boss |-> [name |-> NamePlain, level |-> 20, image |-> NoImage,
                language |-> "English", translations |-> {}],
      image_hash |-> NoHash]}

\* ClientBuilder::build after with_bosses(seeds), seeds being any of the
\* caller's entries, none included
InitQuery ==
    /\ \E seeds \in SUBSET QuerySeeds :
          BuildWith(MaxHist, Kinds, MAX_CONCURRENT_IMAGE_HASHER_REQUESTS, NoOp, seeds)
    /\ UnitIdle

NextQuery ==
    \/ ClientRequest("ClientGetBosses", NoName)
    \/ \E n \in QueryNames : ClientRequest("ClientGetTweets", n)
    \/ WClientRequest
    \/ \E info \in QueryPosts : WNewRaid(info)
    \/ \E f \in {{NameJa}, {NamePlain, NameHuge}} : ClientRemove(f)
    \/ WRemoveBosses

SpecQuery == InitQuery /\ [][NextQuery]_vars

(***************************************************************************)
(* SpecMedia: the image of a RaidInfo, taken from entities.media of the    *)
(* post by RaidInfo::from_tweet (src/raid.rs) and, in the JSON parser, by  *)
(* deserialize_media (src/parser/twitter.rs).                              *)
(***************************************************************************)
\* longest media list of a post
MaxMedia == 4
MediaUrls == {"m1", "m2", "m3"}

RECURSIVE SeqsUpTo(_, _)
SeqsUpTo(S, n) ==
    IF n = 0
    THEN {<<>>}
    ELSE LET shorter == SeqsUpTo(S, n - 1)
         IN shorter \cup {Append(q, x) : q \in shorter, x \in S}

\* entities.media of a post: a list of media items, or no such field
MediaLists ==
    {[present |-> TRUE, list |-> q] : q \in SeqsUpTo(MediaUrls, MaxMedia)} \cup {NoMedia}

\* Vec::pop: the last element, None for an empty Vec
VecPop(v) == IF v = <<>> THEN NoImage ELSE v[Len(v)]

\* RaidInfo::from_tweet: entities.media.and_then(|mut media| media.pop()...)
from_tweet_image(m) == IF m.present THEN VecPop(m.list) ELSE NoImage

\* MediaVisitor::visit_seq: out is overwritten by every element of the array
RECURSIVE visit_seq(_, _)
visit_seq(out, seq) ==
    IF seq = <<>> THEN out ELSE visit_seq(Head(seq), Tail(seq))

\* Entities.media: default (None) without the field, else deserialize_media
deserialize_media(m) == IF m.present THEN visit_seq(NoImage, m.list) ELSE NoImage

\* RaidInfo::from_tweet on a post
FromTweet ==
    /\ image = Unparsed
    /\ image' = from_tweet_image(media)
    /\ last' = [type |-> "from_tweet"]
    /\ UNCHANGED <<workerVars, clientVars, pipeVars, broken, obs,
                   ring, pushed, lent, backlog, media>>

\* the parser's Tweet deserialized from the JSON of a post
ParseTweet ==
    /\ image = Unparsed
    /\ image' = deserialize_media(media)
    /\ last' = [type |-> "deserialize"]
    /\ UNCHANGED <<workerVars, clientVars, pipeVars, broken, obs,
                   ring, pushed, lent, backlog, media>>

InitMedia ==
    /\ Build(MaxHist, Kinds, MAX_CONCURRENT_IMAGE_HASHER_REQUESTS)
    /\ ring = CircularBufferWithCapacity(1)
    /\ pushed = <<>>
    /\ lent = <<>>
    /\ backlog = BacklogWithCapacity(1)
    /\ media \in MediaLists
    /\ image = Unparsed

NextMedia ==
    \/ FromTweet
    \/ ParseTweet

SpecMedia == InitMedia /\ [][NextMedia]_vars

(***************************************************************************)
(* SpecFanOut: subscribers that follow bosses whose posts carry images, so *)
(* that the hash pipeline links the two bosses as translations; a boss can *)
(* be removed, which leaves its name in the translations of the other.     *)
(***************************************************************************)
ImagePosts == {[boss_name |-> n, language |-> LanguageOf(n), image |-> "url"] : n \in Names}

NextFanOut ==
    \/ \E s \in Subs : ClientSubscribe(s)
    \/ \E s \in Subs, n \in Names : SubscriptionFollow(s, n)
    \/ ClientRemove({NameEn})
    \/ WSubscribe
    \/ WFollow
    \/ WRemoveBosses
    \/ \E info \in ImagePosts : WNewRaid(info)
    \/ InnerPoll
    \/ \E i \in Slots : WImageHash(i, 11)

SpecFanOut == Init /\ [][NextFanOut]_vars

(***************************************************************************)
(* SpecImages: posts with and without an image, some with an image URL     *)
(* that does not parse, for bosses that get removed and come back, while   *)
(* the hash pipeline takes the requests and delivers hashes or not.        *)
(***************************************************************************)
AnyImagePosts ==
    {[boss_name |-> n, language |-> LanguageOf(n), image |-> u] :
        n \in Names, u \in {NoImage, "url", BadUrl}}

NextImages ==
    \/ \E info \in AnyImagePosts : WNewRaid(info)
    \/ \E f \in (SUBSET Names) \ {{}} : ClientRemove(f)
    \/ WRemoveBosses
    \/ InnerPoll
    \/ \E i \in Slots : WImageHash(i, 11)

SpecImages == Init /\ [][NextImages]_vars

(***************************************************************************)
(* SpecMetrics: a worker built with_metrics(metrics::simple(..)) and       *)
(* with_bosses, which gives it an entry for a boss that has received no    *)
(* tweet. Subscribers come, follow, unfollow, break and go while posts     *)
(* arrive for the other boss.                                              *)
(***************************************************************************)
\* the RaidBossMetadata given to with_bosses
SeedEn ==
    [boss |-> [name |-> NameEn, level |-> 60, image |-> NoImage,
               language |-> "English", translations |-> {}],
     image_hash |-> NoHash]

InitMetrics ==
    /\ BuildWith(MaxHist, Kinds, MAX_CONCURRENT_IMAGE_HASHER_REQUESTS, simple, {SeedEn})
    /\ UnitIdle

NextMetrics ==
    \/ \E s \in Subs : ClientSubscribe(s)
    \/ \E s \in Subs, n \in Names : SubscriptionFollow(s, n)
    \/ \E s \in Subs, n \in Names : SubscriptionUnfollow(s, n)
    \/ \E s \in Subs : SubscriptionDrop(s)
    \/ \E s \in Unreliable : SubscriberBreaks(s)
    \/ WSubscribe
    \/ WUnsubscribe
    \/ WFollow
    \/ WUnfollow
    \/ \E info \in PlainPosts : WNewRaid(info)

SpecMetrics == InitMetrics /\ [][NextMetrics]_vars

(***************************************************************************)
(* SpecLeave: the same worker, with subscribers that follow bosses and     *)
(* then leave with Subscription::unsubscribe.                              *)
(***************************************************************************)
NextLeave ==
    \/ \E s \in Subs : ClientSubscribe(s)
    \/ \E s \in Subs, n \in Names : SubscriptionFollow(s, n)
    \/ \E s \in Subs : SubscriptionUnsubscribe(s)
    \/ WSubscribe
    \/ WFollow
    \/ WUnsubscribe
    \/ WUnfollow
    \/ \E info \in PlainPosts : WNewRaid(info)
    \/ ClientRemove(Names)
    \/ WRemoveBosses

SpecLeave == InitMetrics /\ [][NextLeave]_vars

(***************************************************************************)
(* SpecSilent: workers whose adapter returns None for some or all          *)
(* messages, with subscribers that follow bosses and whose send may fail.  *)
(***************************************************************************)
\* the adapter of examples/server.rs, which emits nothing for Heartbeat, and
\* the |_| None of from_hyper_client
SilentAdapters == {Kinds \ {"Heartbeat"}, {}}

InitSilent ==
    /\ \E a \in SilentAdapters : Build(MaxHist, a, MAX_CONCURRENT_IMAGE_HASHER_REQUESTS)
    /\ UnitIdle

NextSilent ==
    \/ \E s \in Subs : ClientSubscribe(s)
    \/ \E s \in Subs, n \in Names : SubscriptionFollow(s, n)
    \/ \E s \in Subs : SubscriptionGetBosses(s)
    \/ \E s \in Subs, n \in Names : SubscriptionGetTweets(s, n)
    \/ ClientHeartbeat
    \/ ClientRemove(Names)
    \/ \E s \in Unreliable : SubscriberBreaks(s)
    \/ WSubscribe
    \/ WFollow
    \/ WGetBosses
    \/ WGetTweets
    \/ WHeartbeat
    \/ WRemoveBosses
    \/ \E info \in PlainPosts : WNewRaid(info)

SpecSilent == InitSilent /\ [][NextSilent]_vars

(***************************************************************************)
(* SpecBeat: the worker of Spec with a caller that sends heartbeats while  *)
(* subscribers come, break and go.                                         *)
(***************************************************************************)
NextBeat ==
    \/ \E s \in Subs : ClientSubscribe(s)
    \/ \E s \in Subs : SubscriptionDrop(s)
    \/ ClientHeartbeat
    \/ \E s \in Unreliable : SubscriberBreaks(s)
    \/ WSubscribe
    \/ WUnsubscribe
    \/ WHeartbeat

SpecBeat == Init /\ [][NextBeat]_vars

(***************************************************************************)
(* SpecSelect: Worker::poll taking one event at a time from Worker.events, *)
(* the Select of the post stream, the control channel and the hash         *)
(* results. The post stream may have a post ready at any poll, and so at   *)
(* every poll. A client subscribes and opens a stream as the server       *)
(* example does: get_tweets and follow for one boss, enqueued back to back.*)
(***************************************************************************)
\* the posts of this specification: without an image for either boss, so
\* that consecutive posts differ, and with an image for one of them
SelectPosts ==
    {[boss_name |-> n, language |-> LanguageOf(n), image |-> NoImage] : n \in Names}
    \cup {[boss_name |-> n, language |-> LanguageOf(n), image |-> "url"] : n \in Posted}

\* the stream endpoint of the server example: subscription.get_tweets(name)
\* and then subscription.follow(name), in one turn of the caller
StreamEndpoint(s, n) ==
    /\ handles[s].st = "live"
    /\ n \notin handles[s].following
    /\ Enqueue(<<SubscriberGetTweets(handles[s].id, n), SubscriberFollow(handles[s].id, n)>>)
    /\ handles' = [handles EXCEPT ![s].following = @ \cup {n}]
    /\ UNCHANGED <<workerVars, unitVars, pipeVars, broken, obs>>

\* Worker::handle_event for an event of the control channel; visit is the
\* order in which the HashMap of the bosses iterates
handle_event(w, event, visit) ==
    CASE event.type = "SubscriberSubscribe" -> subscribe(w, event.sub)
      [] event.type = "SubscriberUnsubscribe" -> unsubscribe(w, event.id)
      [] event.type = "SubscriberFollow" -> follow(w, event.id, event.name)
      [] event.type = "SubscriberUnfollow" -> unfollow(w, event.id, event.name)
      [] event.type = "SubscriberGetBosses" -> SendDirect(w, event.id, w.cached_boss_list)
      [] event.type = "SubscriberGetTweets" ->
             SendDirect(w, event.id, Adapt(TweetList(w, event.name)))
      [] event.type = "SubscriberHeartbeat" -> SendGlobal(w, Adapt(Msg("Heartbeat", 0)))
      [] event.type = "ClientRemoveBosses" -> remove_bosses(w, event.f, visit)

\* the Select flags after a poll that gave p; the completed fetches left
EventsAfter(p, ready) == [flag |-> p.flag, inner_flag |-> p.inner_flag, ready |-> ready]

\* the pipeline after a poll that gave p: filled if the poll reached the
\* hash results, as it was otherwise
PipeAfter(p) ==
    IF p.hash_polled
    THEN BufferFill(hreq, outstanding, fq, concurrency)
    ELSE Pipe(hreq, outstanding, fq)

\* one turn of the loop of Worker::poll in which the Select yields a post;
\* the post stream has one whenever it is polled
PollPost(info) ==
    /\ status = "running"
    /\ LET p == EventsPoll(events, "item", ctl # <<>>, "none")
           f == PipeAfter(p)
       IN  /\ p.from = "post"
           /\ events' = EventsAfter(p, events.ready)
           /\ outstanding' = f.outstanding
           /\ fq' = f.fq
           /\ \E order \in Orders(TranslationsOf(info.boss_name)) :
                 Commit(handle_raid_info([W EXCEPT !.hreq = f.hreq], info, order))
    /\ last' = [type |-> "NewRaidInfo", name |-> info.boss_name,
                new |-> info.boss_name \notin DOMAIN bosses]
    /\ UNCHANGED <<clientVars, broken, concurrency>>

\* one turn in which the Select yields the head of the control channel,
\* whether or not a post is ready as well
PollCtl ==
    /\ status = "running"
    /\ \E post_out \in {"none", "item", "err"} :
          LET p == EventsPoll(events, post_out, ctl # <<>>, "none")
              f == PipeAfter(p)
          IN  /\ p.from = "ctl"
              /\ events' = EventsAfter(p, events.ready)
              /\ outstanding' = f.outstanding
              /\ fq' = f.fq
              /\ \E visit \in Orders(DOMAIN bosses) :
                    LET w == handle_event([W EXCEPT !.hreq = f.hreq], Head(ctl), visit)
                    IN  /\ Commit(w)
                        /\ IF Head(ctl).type = "SubscriberSubscribe"
                           THEN LET sent == SubscriptionSent(w, Head(ctl).sub,
                                                             SubscribeId(W))
                                IN  /\ ctl' = Tail(ctl) \o sent.evs
                                    /\ handles' = [handles EXCEPT ![Head(ctl).sub] =
                                                      sent.handle]
                           ELSE /\ ctl' = Tail(ctl)
                                /\ handles' = handles
    /\ last' = [Head(ctl) EXCEPT !.f = @ \cap DOMAIN bosses]
    /\ UNCHANGED <<requests, broken, concurrency>>

\* one turn in which the Select yields a hash: the receiver fills its
\* buffer from the request channel and BufferUnordered polls its futures in
\* the same call. It yields the oldest fetch that completed before the
\* poll; when there is none, any fetch in flight may be done at this poll
\* with image_hash, one that the poll has just started included
PollHash(image_hash) ==
    /\ status = "running"
    /\ \E post_out \in {"none", "item", "err"} :
          LET p == EventsPoll(events, post_out, ctl # <<>>, "item")
              f == BufferFill(hreq, outstanding, fq, concurrency)
              done == IF events.ready # <<>> THEN {Head(events.ready)}
                      ELSE {[name |-> f.fq[k], ok |-> TRUE, image_hash |-> image_hash] :
                               k \in 1..Len(f.fq)}
          IN  /\ p.from = "hash"
              /\ ~p.err
              /\ \E r \in done :
                    LET i == CHOOSE k \in 1..Len(f.fq) : f.fq[k] = r.name
                    IN  /\ events' = EventsAfter(p, IF events.ready = <<>> THEN <<>>
                                                    ELSE Tail(events.ready))
                        /\ outstanding' = ReceiverOk(f.outstanding, r.name)
                        /\ fq' = Without(f.fq, i)
                        /\ \E visit \in Orders(DOMAIN bosses) :
                              Commit(handle_image_hash([W EXCEPT !.hreq = f.hreq],
                                                       r.name, r.image_hash, visit))
                        /\ last' = [type |-> "NewImageHash", name |-> r.name,
                                    image_hash |-> r.image_hash,
                                    matched |-> /\ r.name \in DOMAIN bosses
                                                /\ HashMatches([bosses |->
                                                       [bosses EXCEPT ![r.name].image_hash =
                                                                          r.image_hash]],
                                                       r.name, r.image_hash) # {}]
    /\ UNCHANGED <<clientVars, broken, concurrency>>

\* a poll that finds no stream ready: Worker::poll returns NotReady, both
\* Selects having flipped their flags and the buffer having been filled
PollNotReady ==
    /\ status = "running"
    /\ LET p == EventsPoll(events, "none", ctl # <<>>, "none")
           f == PipeAfter(p)
       IN  /\ p.from = "none"
           /\ events' = EventsAfter(p, events.ready)
           /\ hreq' = f.hreq
           /\ outstanding' = f.outstanding
           /\ fq' = f.fq
    /\ last' = [type |-> "NotReady"]
    /\ UNCHANGED <<workerVars, unitVars, clientVars, broken, concurrency, obs>>

\* a fetch in flight completes, with a hash (ok) or with an error: its
\* result waits in the FuturesUnordered of BufferUnordered for the next
\* poll of the hash stream
FetchDone(i, ok, image_hash) ==
    /\ status = "running"
    /\ i \in 1..Len(fq)
    /\ \A k \in 1..Len(events.ready) : events.ready[k].name # fq[i]
    /\ events' = [events EXCEPT !.ready =
                     Append(@, [name |-> fq[i], ok |-> ok,
                                image_hash |-> image_hash])]
    /\ last' = [type |-> "fetched"]
    /\ UNCHANGED <<workerVars, unitVars, clientVars, broken, hreq, outstanding, fq,
                   concurrency, obs>>

\* one turn in which the Select yields the error of a failed fetch: the
\* receiver has filled its buffer and leaves the name in outstanding, the
\* try_ready! of Worker::poll returns the error and the worker future ends.
\* The fetch is the oldest that completed before the poll, if it failed;
\* when none has completed, any fetch in flight may fail at this poll, one
\* that the poll has just started included
PollHashError ==
    /\ status = "running"
    /\ \E post_out \in {"none", "item", "err"} :
          LET p == EventsPoll(events, post_out, ctl # <<>>, "err")
              f == BufferFill(hreq, outstanding, fq, concurrency)
              failed == IF events.ready # <<>> THEN {Head(events.ready).name}
                        ELSE {f.fq[k] : k \in 1..Len(f.fq)}
          IN  /\ p.from = "hash"
              /\ p.err
              /\ \E name \in failed :
                    LET i == CHOOSE k \in 1..Len(f.fq) : f.fq[k] = name
                    IN  /\ events' = EventsAfter(p, IF events.ready = <<>> THEN <<>>
                                                    ELSE Tail(events.ready))
                        /\ hreq' = f.hreq
                        /\ outstanding' = ReceiverErr(f.outstanding, name)
                        /\ fq' = Without(f.fq, i)
                        /\ last' = [type |-> "HashError", name |-> name]
    /\ status' = "failed"
    /\ UNCHANGED <<id_pool, subscribers, bosses, requested_bosses,
                   cached_boss_list, tweet_history_size, filter_map_message, metrics,
                   unitVars, clientVars, broken, concurrency, obs>>

\* one turn in which the Select reaches the ended post stream: the chained
\* Once yields Err(Closed), which the try_ready! of Worker::poll returns.
\* The outer Select reaches the post stream first when its flag is clear,
\* and otherwise after an inner Select that had nothing
PollClosed ==
    /\ status = "running"
    /\ LET p == EventsPoll(events, "err", ctl # <<>>, "none")
           f == PipeAfter(p)
       IN  /\ p.from = "post"
           /\ events' = EventsAfter(p, events.ready)
           /\ hreq' = f.hreq
           /\ outstanding' = f.outstanding
           /\ fq' = f.fq
    /\ status' = "closed"
    /\ last' = [type |-> "Closed"]
    /\ UNCHANGED <<id_pool, subscribers, bosses, requested_bosses,
                   cached_boss_list, tweet_history_size, filter_map_message, metrics,
                   unitVars, clientVars, broken, concurrency, obs>>

\* Worker::poll, one turn of its loop
WorkerPoll ==
    \/ PollNotReady
    \/ PollCtl
    \/ PollHash(11)
    \/ PollHashError
    \/ PollClosed
    \/ \E info \in SelectPosts : PollPost(info)

\* the one client of this specification
Streamer == "s2"

NextSelect ==
    \/ ClientSubscribe(Streamer)
    \/ \E n \in Posted : StreamEndpoint(Streamer, n)
    \/ \E info \in SelectPosts : PollPost(info)
    \/ PollCtl
    \/ PollHash(11)
    \/ PollNotReady
    \/ PollHashError
    \/ PollClosed
    \/ \E i \in Slots : FetchDone(i, TRUE, 11)
    \/ \E i \in Slots : FetchDone(i, FALSE, 0)

SpecSelect == Init /\ [][NextSelect]_vars

\* the executor polls the worker again whenever a poll can take a turn
SpecSelectFair == SpecSelect /\ WF_vars(WorkerPoll)

(***************************************************************************)
(* Properties.                                                             *)
(***************************************************************************)
TypeOK ==
    /\ status \in {"running", "closed", "failed", "panicked", "dropped", "completed"}
    /\ DOMAIN bosses \subseteq Names
    /\ DOMAIN requested_bosses \subseteq Names
    /\ outstanding \subseteq Names
    /\ broken \subseteq Subs

Live == {s \in Subs : handles[s].st = "live"}
LiveIdsDistinct == \A s, t \in Live : s # t => handles[s].id # handles[t].id
\* the free list holds what recycle was given: each id once, and only ids
\* that get has handed out
FreeListProper ==
    /\ \A k \in 1..Len(id_pool.available) : id_pool.available[k] < id_pool.max_id
    /\ \A j, k \in 1..Len(id_pool.available) :
          j # k => id_pool.available[j] # id_pool.available[k]

\* C1: the ids held by live Subscription handles are pairwise distinct, and
\* recycle is only called for an outstanding id (so the free list never
\* holds an id twice, nor an id that was not handed out).
C1_DistinctIds == LiveIdsDistinct /\ FreeListProper

\* this step handles the next control event, of that type, enqueued by a Drop
DropStep(type, srcs) ==
    /\ Next1(type)
    /\ Head(ctl).src \in srcs
    /\ ctl' = Tail(ctl)
One(b) == IF b THEN 1 ELSE 0

\* C2 as claimed, for handles that simply go out of scope: handling the
\* Unsubscribe of the Drop leaves the global group with exactly one member
\* fewer and no follower or pending group holding the id, and handling an
\* Unfollow of the Drop leaves that boss with exactly one follower fewer.
C2_ExactlyOneFewer ==
    [][ /\ DropStep("SubscriberUnsubscribe", {"drop"}) =>
             /\ Size(subscribers') = Size(subscribers) - 1
             /\ \A n \in Names :
                   Head(ctl).id \notin DOMAIN FollowersIn(bosses', requested_bosses', n)
        /\ DropStep("SubscriberUnfollow", {"drop"}) =>
             Size(FollowersIn(bosses', requested_bosses', Head(ctl).name))
               = Size(FollowersIn(bosses, requested_bosses, Head(ctl).name)) - 1
      ]_vars

\* C2 amended: after the events of any Drop are handled, the global group
\* does not hold the handle's id and no follower or pending group of a boss
\* the handle followed holds it; the global group and each followed boss
\* lose one member exactly when the id was still a member, and none
\* otherwise (an evicted subscriber, or one whose Follow was ignored).
C2_NoLeak ==
    [][ /\ DropStep("SubscriberUnsubscribe", {"drop", "unsubscribe"}) =>
             /\ Head(ctl).id \notin DOMAIN subscribers'
             /\ Size(subscribers') =
                  Size(subscribers) - One(Head(ctl).id \in DOMAIN subscribers)
             /\ \A n \in Head(ctl).fol :
                   Head(ctl).id \notin DOMAIN FollowersIn(bosses', requested_bosses', n)
        /\ DropStep("SubscriberUnfollow", {"drop", "unsubscribe"}) =>
             LET before == FollowersIn(bosses, requested_bosses, Head(ctl).name)
                 after == FollowersIn(bosses', requested_bosses', Head(ctl).name)
             IN /\ Head(ctl).id \notin DOMAIN after
                /\ Size(after) = Size(before) - One(Head(ctl).id \in DOMAIN before)
      ]_vars

\* C2 witness: the Unsubscribe of a Drop was just handled for a handle that
\* followed both a boss of the catalog and one still pending, while another
\* subscriber remains
C2_Witness ==
    /\ last.type = "SubscriberUnsubscribe"
    /\ last.src = "drop"
    /\ last.fol = Names
    /\ DOMAIN bosses = Posted
    /\ DOMAIN subscribers # {}
    /\ last.id \notin DOMAIN subscribers

\* C3: once a subscriber's send has returned failure during a broadcast, no
\* later message invokes its send again.
C3_NoSendAfterFailure == obs.resent = {}

\* C4: two catalog entries of equal level and different language that hold
\* the same image hash (each delivered by a NewHash, in either order) are in
\* each other's translations.
C4_TranslationSymmetry ==
    \A a, b \in DOMAIN bosses :
        ( /\ bosses[a].image_hash # NoHash
          /\ bosses[a].image_hash = bosses[b].image_hash
          /\ bosses[a].boss.level = bosses[b].boss.level
          /\ bosses[a].boss.language # bosses[b].boss.language )
        => b \in bosses[a].boss.translations /\ a \in bosses[b].boss.translations

\* C4 witness: a NewHash was just handled and gave a boss the hash that a
\* boss of the other language already held
C4_Witness ==
    /\ last.type = "NewImageHash"
    /\ last.matched
    /\ \E a, b \in DOMAIN bosses :
          /\ a = last.name /\ b # a
          /\ bosses[a].image_hash = bosses[b].image_hash
          /\ bosses[a].boss.language # bosses[b].boss.language
          /\ b \in bosses[a].boss.translations

\* C5: in every state, for all catalog entries A and B, if A.translations
\* contains B's name then B.translations contains A's name.
C5_TranslationsMutual ==
    \A a, b \in DOMAIN bosses :
        b \in bosses[a].boss.translations => a \in bosses[b].boss.translations

NoDuplicates(q) == \A j, k \in 1..Len(q) : j # k => q[j] # q[k]

\* the requests a step takes from the request channel
Taken == IF Len(hreq') < Len(hreq) THEN SubSeq(hreq, 1, Len(hreq) - Len(hreq')) ELSE <<>>

\* C6: at most one fetch per boss name is in flight (started and its result
\* not yet delivered), and a request for a name that has a fetch in flight
\* is dropped: a poll starts fetches only for names it took from the request
\* channel that had no fetch in flight, one for each.
C6_OneFetchPerName ==
    [][ /\ NoDuplicates(fq')
        /\ Range(fq') \subseteq Range(fq) \cup Range(Taken)
        /\ Len(fq') <= Len(fq) + Cardinality(Range(Taken) \ Range(fq))
      ]_vars

\* C6 witness: a request for a name waits while a fetch for it is in flight
C6_Witness ==
    /\ hreq # <<>>
    /\ Head(hreq) \in Range(fq)
    /\ Len(fq) < concurrency

\* C7: a fetch that fails does not end the worker: it keeps running.
C7_FailedFetchKeepsLoop == last.type = "HashError" => status = "running"

\* this step delivers the result of a fetch for n
DeliveredNow(n) == last'.type \in {"HashResult", "HashError"} /\ last'.name = n

\* C8: the outstanding set holds only names that have a fetch in flight (a
\* failed fetch leaves no name in it), and a hash request for a name with no
\* fetch in flight is accepted: the poll that takes it from the request
\* channel starts a fetch for it.
C8_RetryAfterFailure ==
    [][ /\ outstanding' \subseteq Range(fq')
        /\ \A n \in Range(Taken) :
              (n \notin Range(fq) /\ ~DeliveredNow(n)) => n \in Range(fq')
      ]_vars

\* BossList of the current catalog, adapted
FreshBossList == Adapt(Msg("BossList", {bosses[n].boss : n \in DOMAIN bosses}))

\* C9: when the handler of an event that added a boss, removed a boss or
\* changed a translations set has returned, the cached boss list is the
\* adapted BossList of the current catalog.
C9_CacheFresh ==
    ( /\ status = "running"
      /\ \/ last.type = "NewRaidInfo" /\ last.new
         \/ last.type = "ClientRemoveBosses" /\ last.f # {}
         \/ last.type = "NewImageHash" /\ last.matched )
    => cached_boss_list = FreshBossList

\* C10: the worker never panics while handling a NewRaid, whatever history
\* size the builder was given.
C10_NoPanic == status # "panicked"

\* C11: no boss name is both a key of the pending table (requested_bosses)
\* and a key of the catalog (bosses).
C11_PendingDisjoint == DOMAIN bosses \cap DOMAIN requested_bosses = {}

\* C11 witness: a RemoveBosses was just handled that removed a boss with
\* followers, whose group is now in the pending table
C11_Witness ==
    /\ last.type = "ClientRemoveBosses"
    /\ \E n \in last.f : n \in DOMAIN requested_bosses /\ n \notin DOMAIN bosses

\* how often x occurs in the sequence q
Count(q, x) == Cardinality({i \in 1..Len(q) : q[i] = x})
Min(a, b) == IF a <= b THEN a ELSE b
\* the last k items of the sequence q
LastItems(q, k) == SubSeq(q, Len(q) - k + 1, Len(q))

\* C12: after n pushes into a CircularBuffer of capacity c >= 1, the
\* contents of as_unordered_slice are, as a multiset, the last min(n, c)
\* items pushed.
C12_RingContents ==
    LET kept == LastItems(pushed, Min(Len(pushed), ring.capacity)) IN
    /\ Len(as_unordered_slice(ring)) = Len(kept)
    /\ \A x \in Items : Count(as_unordered_slice(ring), x) = Count(kept, x)

\* C12 witness: more items than the capacity were pushed into a buffer of
\* capacity 2 or more, the overwriting has wrapped around once, and the
\* slice is not in the order of the pushes
C12_Witness ==
    /\ ring.capacity >= 2
    /\ Len(pushed) > 2 * ring.capacity
    /\ as_unordered_slice(ring) # LastItems(pushed, ring.capacity)

\* C13: the recent-tweet buffer of every catalog entry holds at most
\* tweet_history_size items.
C13_HistoryBounded ==
    \A n \in DOMAIN bosses :
        Len(as_unordered_slice(bosses[n].recent_tweets)) <= tweet_history_size

\* C13 witness: a NewRaid for a boss with a translation was just handled, and
\* the full buffer of the translated boss holds the tweet posted for the
\* other boss
C13_Witness ==
    /\ last.type = "NewRaidInfo"
    /\ ~last.new
    /\ status = "running"
    /\ \E b \in bosses[last.name].boss.translations :
          /\ b \in DOMAIN bosses
          /\ b # last.name
          /\ Len(bosses[b].recent_tweets.buffer) = tweet_history_size
          /\ last.name \in Range(bosses[b].recent_tweets.buffer)

\* C14: when recycle is only called with an outstanding id, the ids
\* outstanding are pairwise distinct, a get that follows recycle(x) returns
\* x, and get allocates a fresh id only when the free list is empty.
C14_IdPool ==
    [][ /\ NoDuplicates(lent')
        /\ (last'.type = "get" /\ last.type = "recycle") => last'.id = last.id
        /\ (last'.type = "get" /\ id_pool'.max_id > id_pool.max_id)
              => id_pool.available = <<>>
      ]_vars

\* C14 witness: a get has just returned the id recycled right before it,
\* while an id recycled earlier stays in the free list and others are held
C14_Witness ==
    /\ last.type = "get"
    /\ last.recycled = last.id
    /\ id_pool.available # <<>>
    /\ Len(lent) >= 2

\* C15: a new entry has no image_hash, an entry's image_hash becomes present
\* only when a NewHash for that boss is handled, and while the entry stays in
\* the catalog a present image_hash never changes.
C15_HashSetOnce ==
    [][ \A n \in DOMAIN bosses' :
          IF n \in DOMAIN bosses
          THEN /\ bosses[n].image_hash # NoHash
                    => bosses'[n].image_hash = bosses[n].image_hash
               /\ bosses[n].image_hash # bosses'[n].image_hash
                    => last'.type = "NewImageHash" /\ last'.name = n
          ELSE bosses'[n].image_hash = NoHash
      ]_vars

\* this step handles a NewRaid that adds boss n, for which a pending
\* follower group existed
Promotes(n) ==
    /\ n \notin DOMAIN bosses
    /\ n \in DOMAIN bosses'
    /\ n \in DOMAIN requested_bosses

\* the handler that ran last invoked send with message m for every
\* subscriber of the set subs, in one broadcast
SentTo(log, m, subs) ==
    \E k \in 1..Len(log) : log[k].msg = m /\ subs \subseteq log[k].to

\* C16 as claimed: when a NewRaid adds a boss that has a pending follower
\* group, every subscriber of the group is sent the adapted tweet and is a
\* follower of the new entry, and the pending table has no entry for the name.
C16_AllPromoted ==
    [][ \A n \in Names : Promotes(n) =>
          /\ SentTo(obs'.log, Adapt(Msg("Tweet", n)), Range(requested_bosses[n]))
          /\ \A i \in DOMAIN requested_bosses[n] :
                /\ i \in DOMAIN bosses'[n].broadcast
                /\ bosses'[n].broadcast[i] = requested_bosses[n][i]
          /\ n \notin DOMAIN requested_bosses'
      ]_vars

\* C16 amended: every subscriber of the pending group is sent the adapted
\* tweet, the followers of the new entry are exactly the subscribers of the
\* group whose send succeeded, and the pending table has no entry for the
\* name.
C16_PromotedUnlessEvicted ==
    [][ \A n \in Names : Promotes(n) =>
          /\ SentTo(obs'.log, Adapt(Msg("Tweet", n)), Range(requested_bosses[n]))
          /\ bosses'[n].broadcast =
               Restrict(requested_bosses[n],
                        {i \in DOMAIN requested_bosses[n] : SendOk(requested_bosses[n][i])})
          /\ n \notin DOMAIN requested_bosses'
      ]_vars

\* C16 witness: the NewRaid just handled added a boss whose pending group
\* held two subscribers; both were sent the tweet, one is a follower now
C16_Witness ==
    /\ last.type = "NewRaidInfo"
    /\ last.new
    /\ \E k \in 1..Len(obs.log) :
          /\ obs.log[k].msg = Adapt(Msg("Tweet", last.name))
          /\ obs.log[k].to = Subs
    /\ Cardinality(DOMAIN bosses[last.name].broadcast) = 1
    /\ last.name \notin DOMAIN requested_bosses

\* the broadcasts of BossRemove for boss n in a handler's log
RemoveBroadcasts(log, n) ==
    {k \in 1..Len(log) : log[k].msg = Adapt(Msg("BossRemove", n))}

\* C17: handling RemoveBosses(f) removes exactly the catalog entries that f
\* matches and leaves the others unchanged; BossRemove is broadcast to the
\* global group exactly once for each removed entry and for no other boss;
\* the follower group of each removed entry that has followers is the
\* pending group of that name afterwards, and no other pending group
\* changes; and the NewRaid that re-creates a boss sends its tweet to the
\* pending group of that name.
C17_RemoveBosses ==
    [][ /\ (Next1("ClientRemoveBosses") /\ ctl' = Tail(ctl)) =>
             LET f == Head(ctl).f
                 removed == f \cap DOMAIN bosses
             IN /\ DOMAIN bosses' = (DOMAIN bosses) \ f
                /\ \A n \in DOMAIN bosses' : bosses'[n] = bosses[n]
                /\ \A n \in Names :
                      /\ Cardinality(RemoveBroadcasts(obs'.log, n))
                           = One(n \in removed)
                      /\ \A k \in RemoveBroadcasts(obs'.log, n) :
                            /\ obs'.log[k].to \subseteq Range(subscribers)
                            /\ Range(subscribers') \subseteq obs'.log[k].to
                /\ \A n \in Names :
                      IF n \in removed /\ DOMAIN bosses[n].broadcast # {}
                      THEN /\ n \in DOMAIN requested_bosses'
                           /\ requested_bosses'[n] = bosses[n].broadcast
                      ELSE /\ n \in DOMAIN requested_bosses' <=> n \in DOMAIN requested_bosses
                           /\ n \in DOMAIN requested_bosses
                                 => requested_bosses'[n] = requested_bosses[n]
        /\ \A n \in Names : Promotes(n) =>
             SentTo(obs'.log, Adapt(Msg("Tweet", n)), Range(requested_bosses[n]))
      ]_vars

\* C17 witness: a RemoveBosses was just handled that removed one of two
\* bosses; its two followers are in the pending table under its name and
\* the other boss kept its follower
C17_Witness ==
    /\ last.type = "ClientRemoveBosses"
    /\ last.f = {NameJa}
    /\ NameEn \in DOMAIN bosses
    /\ DOMAIN bosses[NameEn].broadcast # {}
    /\ NameJa \in DOMAIN requested_bosses
    /\ Cardinality(DOMAIN requested_bosses[NameJa]) = 2
    /\ Len(obs.log) = 1

\* C18: the step in which the post stream ends resolves the worker future
\* with the Closed error, and once it has, the worker handles nothing more
\* (no NewRaid in particular): nothing of the worker changes, whatever
\* its callers go on sending.
C18_StreamEndCloses ==
    [][ /\ (last'.type = "Closed" /\ last.type # "Closed") => status' = "closed"
        /\ status = "closed" => UNCHANGED <<workerVars, pipeVars, broken, obs>>
      ]_vars

\* C18 witness: the stream ended while bosses were in the catalog and a hash
\* request was waiting; the worker future has resolved with Closed
C18_Witness ==
    /\ status = "closed"
    /\ last.type = "Closed"
    /\ DOMAIN bosses # {}
    /\ hreq # <<>>

(***************************************************************************)
(* C19                                                                     *)
(***************************************************************************)
PendingRequests == {r \in Requests : requests[r] = "pending"}
PendingSubscribes == {s \in Subs : handles[s].st = "pending"}
AnsweredRequests == {r \in Requests : requests[r] = "ok"}
AnsweredSubscribes == {s \in Subs : handles[s].st = "live"}

\* C19: a request future (subscribe, bosses, tweets, export_metadata,
\* export_metrics) whose event the worker had not handled when it terminated
\* is never answered afterwards, is resolved with Closed once the terminated
\* worker has been dropped, and so does not stay pending forever (unless its
\* caller dropped it first); a request made after the drop is Closed at once
C19_RequestsClosed ==
    /\ [](status = "dropped" =>
             PendingRequests = {} /\ PendingSubscribes = {})
    /\ [][status # "running" =>
             /\ AnsweredRequests' = AnsweredRequests
             /\ AnsweredSubscribes' = AnsweredSubscribes]_vars
    /\ \A r \in Requests :
          (requests[r] = "pending" /\ status # "running")
              ~> (requests[r] = "closed")
    /\ \A s \in Subs :
          (handles[s].st = "pending" /\ status # "running")
              ~> (handles[s].st \in {"closed", "abandoned"})

\* the worker was just dropped with a request and a subscribe unhandled
C19_Witness ==
    /\ status = "dropped"
    /\ last.type = "drop"
    /\ \E r \in Requests : requests[r] = "closed"
    /\ \E s \in Subs : handles[s].st = "closed"

(***************************************************************************)
(* C20                                                                     *)
(***************************************************************************)
\* C20: among the events an ending Subscription enqueues on the control
\* channel, no SubscriberUnfollow for its id comes after a
\* SubscriberUnsubscribe for that id
C20_UnfollowsBeforeUnsubscribe ==
    \A i, j \in DOMAIN ctl :
        (/\ i < j
         /\ ctl[i].type = "SubscriberUnsubscribe"
         /\ ctl[j].type = "SubscriberUnfollow")
            => ctl[i].id # ctl[j].id

(***************************************************************************)
(* C21                                                                     *)
(***************************************************************************)
\* C21: at any time at most K image fetches are in flight, K being the
\* amount given to image_hash::channel, however many requests are queued
C21_FetchesBounded == Len(fq) <= concurrency

\* K fetches are in flight while a request waits in the channel
C21_Witness ==
    /\ Len(fq) = concurrency
    /\ hreq # <<>>
    /\ Head(hreq) \notin outstanding

(***************************************************************************)
(* C22                                                                     *)
(***************************************************************************)
\* the level the claim gives a boss of that name
ClaimedLevel(name) == IF parse_level(name) = NoLevel THEN 0 ELSE parse_level(name)

\* this step handles a request of type r
Answers(r) ==
    /\ status = "running"
    /\ ctl # <<>>
    /\ Head(ctl).type = r
    /\ ctl' = Tail(ctl)
    /\ last'.type = r

\* C22: the reply to GetBosses holds exactly one RaidBoss per catalog entry,
\* with the level parsed from its name, 0 when the name carries none; the
\* reply to GetTweets{boss} holds the contents of that boss's recent buffer,
\* and nothing when the boss is not in the catalog; neither request changes
\* the state of the aggregator
C22_Queries ==
    [][/\ Answers("ClientGetBosses") =>
            /\ Len(last'.reply) = Cardinality(DOMAIN bosses)
            /\ \A n \in DOMAIN bosses :
                  \E i \in 1..Len(last'.reply) :
                      /\ last'.reply[i] = bosses[n].boss
                      /\ last'.reply[i].name = n
                      /\ last'.reply[i].level = ClaimedLevel(n)
            /\ UNCHANGED <<workerVars, pipeVars, broken>>
       /\ Answers("ClientGetTweets") =>
            /\ Head(ctl).name \in DOMAIN bosses =>
                  last'.reply = bosses[Head(ctl).name].recent_tweets.buffer
            /\ Head(ctl).name \notin DOMAIN bosses => last'.reply = <<>>
            /\ UNCHANGED <<workerVars, pipeVars, broken>>
      ]_vars

\* C22 as amended: the reply to GetBosses holds exactly one RaidBoss per
\* catalog entry, a clone of the one the entry holds; the level of an entry
\* is the one parsed from its name (0 when the name carries none) when the
\* entry was created from a post, the level the caller gave when the entry
\* was given to with_bosses, and no step changes it afterwards; the reply
\* to GetTweets{boss} holds the contents of that boss's recent buffer, and
\* nothing when the boss is not in the catalog; neither request changes the
\* state of the aggregator
C22_QueriesAsStored ==
    /\ \A n \in DOMAIN bosses : \E d \in QuerySeeds : bosses[n].boss = d.boss
    /\ [][/\ Answers("ClientGetBosses") =>
                /\ Len(last'.reply) = Cardinality(DOMAIN bosses)
                /\ \A n \in DOMAIN bosses :
                      \E i \in 1..Len(last'.reply) :
                          /\ last'.reply[i] = bosses[n].boss
                          /\ last'.reply[i].name = n
                /\ UNCHANGED <<workerVars, pipeVars, broken>>
          /\ Answers("ClientGetTweets") =>
                /\ Head(ctl).name \in DOMAIN bosses =>
                      last'.reply = bosses[Head(ctl).name].recent_tweets.buffer
                /\ Head(ctl).name \notin DOMAIN bosses => last'.reply = <<>>
                /\ UNCHANGED <<workerVars, pipeVars, broken>>
          /\ \A n \in DOMAIN bosses' :
                /\ n \notin DOMAIN bosses => bosses'[n].boss.level = ClaimedLevel(n)
                /\ n \in DOMAIN bosses => bosses'[n].boss.level = bosses[n].boss.level
          ]_vars

\* GetBosses was just answered with a boss that keeps the level 20 the
\* caller gave it, not the 0 of its name, and a boss created from a post
\* whose digits do not fit, after the tweets of a boss were asked for and
\* sent
C22_Witness ==
    /\ last.type = "ClientGetBosses"
    /\ \E i, j \in 1..Len(last.reply) :
          /\ last.reply[i].name = NamePlain
          /\ last.reply[i].level = 20
          /\ last.reply[j].name = NameHuge
          /\ last.reply[j].level = 0
    /\ requests["ClientGetTweets"] = "ok"

(***************************************************************************)
(* C23                                                                     *)
(***************************************************************************)
\* C23: the image of a produced RaidInfo is the first element of the post's
\* entities.media list when the list is not empty, and absent when the list
\* is empty or missing
C23_FirstMedia ==
    image # Unparsed =>
        image = IF media.present /\ media.list # <<>> THEN media.list[1] ELSE NoImage

(***************************************************************************)
(* C24                                                                     *)
(***************************************************************************)
\* C24: Broadcast::send, as the heartbeat runs it on the global group,
\* invokes send exactly once on every subscriber of the group, and the group
\* afterwards holds exactly the subscribers whose send succeeded
C24_BroadcastSend ==
    [][Answers("SubscriberHeartbeat") =>
          /\ Len(obs'.log) = 1
          /\ LET calls == obs'.log[1].calls IN
                /\ DOMAIN calls = Range(subscribers)
                /\ \A s \in DOMAIN calls : calls[s] = 1
          /\ subscribers' =
                Restrict(subscribers,
                         {i \in DOMAIN subscribers : subscribers[i] \notin broken})
      ]_vars

\* a heartbeat was just sent to two subscribers, one of which failed and
\* is gone from the group
C24_Witness ==
    /\ last.type = "SubscriberHeartbeat"
    /\ Len(obs.log) = 1
    /\ Cardinality(DOMAIN obs.log[1].calls) = 2
    /\ Cardinality(DOMAIN subscribers) = 1

(***************************************************************************)
(* C25                                                                     *)
(***************************************************************************)
\* C25: a subscriber whose send fails while it receives the direct reply to
\* GetBosses or GetTweets is removed from the global group
C25_DirectFailureEvicts ==
    [][\A r \in {"SubscriberGetBosses", "SubscriberGetTweets"} :
          ( /\ Answers(r)
            /\ Head(ctl).id \in DOMAIN subscribers
            /\ subscribers[Head(ctl).id] \in broken
            /\ Len(obs'.log) = 1 )
          => Head(ctl).id \notin DOMAIN subscribers'
      ]_vars

(***************************************************************************)
(* C26                                                                     *)
(***************************************************************************)
\* this step handles a NewHash
HashStep ==
    /\ status = "running"
    /\ status' = "running"
    /\ Len(fq') = Len(fq) - 1
    /\ last'.type = "NewImageHash"

\* the entries the claim says a NewHash{a, h} links a with
Linked(a, h) ==
    {b \in (DOMAIN bosses) \ {a} :
        /\ bosses[b].boss.level = bosses[a].boss.level
        /\ bosses[b].boss.language # bosses[a].boss.language
        /\ bosses[b].image_hash = h}

\* the broadcasts of a BossUpdate for boss b made by the handler that ran last
BossUpdates(log, b) ==
    {k \in 1..Len(log) : log[k].msg.kind = "BossUpdate" /\ log[k].msg.body.name = b}

\* C26: a NewHash{a, h} with a in the catalog adds a to the translations of
\* exactly the other entries of equal level, different language and image
\* hash h, and those entries to the translations of a; it broadcasts (where
\* the adapter maps BossUpdate) one BossUpdate per such entry and, if there
\* is one, exactly one more for a; with no match it broadcasts nothing and
\* changes no translations
C26_HashLinks ==
    [][(HashStep /\ last'.name \in DOMAIN bosses) =>
          LET a == last'.name
              linked == Linked(a, last'.image_hash)
              adapted == "BossUpdate" \in filter_map_message
          IN  /\ DOMAIN bosses' = DOMAIN bosses
              /\ \A b \in (DOMAIN bosses) \ {a} :
                    /\ bosses'[b].boss.translations =
                          IF b \in linked
                          THEN bosses[b].boss.translations \cup {a}
                          ELSE bosses[b].boss.translations
                    /\ Cardinality(BossUpdates(obs'.log, b)) =
                          IF b \in linked /\ adapted THEN 1 ELSE 0
              /\ bosses'[a].boss.translations =
                    bosses[a].boss.translations \cup linked
              /\ Cardinality(BossUpdates(obs'.log, a)) =
                    IF linked # {} /\ adapted THEN 1 ELSE 0
              /\ Len(obs'.log) =
                    IF linked # {} /\ adapted THEN Cardinality(linked) + 1 ELSE 0
      ]_vars

\* a NewHash was just handled that linked two bosses not linked before, with
\* its two BossUpdate broadcasts
C26_Witness ==
    /\ last.type = "NewImageHash"
    /\ last.matched
    /\ Len(obs.log) = 2
    /\ \A n \in Names : n \in DOMAIN bosses /\ bosses[n].boss.translations # {}

(***************************************************************************)
(* C27                                                                     *)
(***************************************************************************)
\* this step handles a NewRaid for boss a, which is in the catalog
RaidOnExisting(a) ==
    /\ status = "running"
    /\ a \in DOMAIN bosses
    /\ last'.type = "NewRaidInfo"
    /\ last'.name = a
    /\ ~last'.new
    /\ ctl' = ctl
    /\ broken' = broken
    /\ fq' = fq
    /\ outstanding' = outstanding
    /\ Len(hreq') >= Len(hreq)

\* C27: a NewRaid for a boss a of the catalog sends the adapted tweet to the
\* followers of a and then to the followers of every catalog boss named in
\* a's translations, and pushes the tweet into the recent buffer of a and of
\* each of those bosses; names in the translations that are not in the
\* catalog are skipped: no entry and no pending group appears for them, and
\* no other entry's buffer changes
C27_TranslationFanOut ==
    [][\A a \in Names : RaidOnExisting(a) =>
          LET targets == bosses[a].boss.translations \cap DOMAIN bosses
              m == Adapt(Msg("Tweet", a))
          IN  /\ status' = "running"
              /\ DOMAIN bosses' = DOMAIN bosses
              /\ requested_bosses' = requested_bosses
              /\ subscribers' = subscribers
              /\ \A b \in DOMAIN bosses :
                    bosses'[b].recent_tweets =
                       IF b \in {a} \cup targets
                       THEN CircularBufferPush(bosses[b].recent_tweets, a)
                       ELSE bosses[b].recent_tweets
              /\ Len(obs'.log) = 1 + Cardinality(targets)
              /\ obs'.log[1].msg = m
              /\ obs'.log[1].to = Range(bosses[a].broadcast)
              /\ \A b \in targets :
                    \E k \in 2..Len(obs'.log) :
                        /\ obs'.log[k].msg = m
                        /\ obs'.log[k].to = Range(bosses[b].broadcast)
      ]_vars

\* a NewRaid for a boss was just fanned out to the followers and the buffer
\* of its translation
C27_Witness ==
    /\ last.type = "NewRaidInfo"
    /\ ~last.new
    /\ Len(obs.log) = 2
    /\ obs.log[2].to # {}
    /\ \E b \in DOMAIN bosses :
          b # last.name /\ bosses[b].recent_tweets.buffer = <<last.name>>

\* a NewRaid for a boss was just handled whose translation is no longer in
\* the catalog
C27_WitnessSkipped ==
    /\ last.type = "NewRaidInfo"
    /\ ~last.new
    /\ Len(obs.log) = 1
    /\ bosses[last.name].boss.translations # {}
    /\ bosses[last.name].boss.translations \cap DOMAIN bosses = {}

(***************************************************************************)
(* C28                                                                     *)
(***************************************************************************)
\* this step handles a NewRaid for boss n
RaidFor(n) ==
    /\ status = "running"
    /\ last'.type = "NewRaidInfo"
    /\ last'.name = n
    /\ ctl' = ctl
    /\ broken' = broken
    /\ fq' = fq
    /\ outstanding' = outstanding
    /\ Len(hreq') >= Len(hreq)

\* the image of boss n in catalog c, absent if it has no entry
ImageOf(c, n) == IF n \in DOMAIN c THEN c[n].boss.image ELSE NoImage

\* C28: a NewRaid for a boss calls ImageHashSender::request, once and for
\* that boss, exactly when it takes the boss's image from absent to present
\* (the entry is created with an image, or the post is the first to carry
\* one), and the request enters the channel if the URL parses; a NewRaid for
\* an entry whose image is set makes no request, whether or not a hash was
\* received for it
C28_RequestOnFirstImage ==
    [][\A n \in Names : RaidFor(n) =>
          LET first == ImageOf(bosses, n) = NoImage /\ ImageOf(bosses', n) # NoImage
          IN  /\ obs'.asked = IF first THEN <<n>> ELSE <<>>
              /\ hreq' = IF first /\ UrlParses(ImageOf(bosses', n))
                         THEN Append(hreq, n) ELSE hreq
              /\ ImageOf(bosses, n) # NoImage => ImageOf(bosses', n) = ImageOf(bosses, n)
      ]_vars

\* a NewRaid for a boss already in the catalog was the first to carry an
\* image and the request was made
C28_Witness ==
    /\ last.type = "NewRaidInfo"
    /\ ~last.new
    /\ obs.asked = <<last.name>>
    /\ hreq = <<last.name>>

\* a NewRaid was handled for an entry that has an image and no hash: no
\* request was made
C28_WitnessNoHash ==
    /\ last.type = "NewRaidInfo"
    /\ ~last.new
    /\ obs.asked = <<>>
    /\ bosses[last.name].boss.image # NoImage
    /\ bosses[last.name].image_hash = NoHash
    /\ last.name \notin outstanding

(***************************************************************************)
(* C29                                                                     *)
(***************************************************************************)
\* the follower group of boss n in the catalog c, empty if it has no entry
GroupOf(c, n) == IF n \in DOMAIN c THEN c[n].broadcast ELSE EmptyMap

\* the pending group of boss n in the pending table p, empty if it has none
PendingOf(p, n) == IF n \in DOMAIN p THEN p[n] ELSE EmptyMap

\* group g with subscriber sub under id, once
WithMember(g, id, sub) ==
    [i \in (DOMAIN g) \cup {id} |-> IF i = id THEN sub ELSE g[i]]

\* C29: Follow(id, boss) with id not in the global group changes no
\* aggregator state; otherwise it makes id a member of the follower group of
\* boss if boss is in the catalog and else of the pending group for boss
\* (created if missing), of one and not the other, once however often it is
\* repeated, and changes nothing else
C29_Follow ==
    [][Answers("SubscriberFollow") =>
          LET id == Head(ctl).id
              n == Head(ctl).name
          IN  IF id \notin DOMAIN subscribers
              THEN UNCHANGED <<workerVars, pipeVars>>
              ELSE /\ UNCHANGED <<status, id_pool, subscribers, cached_boss_list, pipeVars>>
                   /\ DOMAIN bosses' = DOMAIN bosses
                   /\ \A b \in DOMAIN bosses :
                         /\ b # n => bosses'[b] = bosses[b]
                         /\ bosses'[b].boss = bosses[b].boss
                         /\ bosses'[b].recent_tweets = bosses[b].recent_tweets
                   /\ \A b \in Names \ {n} :
                         PendingOf(requested_bosses', b) = PendingOf(requested_bosses, b)
                   /\ DOMAIN requested_bosses' \subseteq DOMAIN requested_bosses \cup {n}
                   /\ IF n \in DOMAIN bosses
                      THEN /\ GroupOf(bosses', n) =
                                 WithMember(GroupOf(bosses, n), id, subscribers[id])
                           /\ requested_bosses' = requested_bosses
                           /\ id \notin DOMAIN PendingOf(requested_bosses', n)
                      ELSE /\ n \in DOMAIN requested_bosses'
                           /\ PendingOf(requested_bosses', n) =
                                 WithMember(PendingOf(requested_bosses, n), id, subscribers[id])
                           /\ id \notin DOMAIN GroupOf(bosses', n)
      ]_vars

\* a Follow was just handled for a subscriber that already followed the
\* boss, which has another follower too
C29_Witness ==
    /\ last.type = "SubscriberFollow"
    /\ last.id \in DOMAIN subscribers
    /\ last.name \in DOMAIN bosses
    /\ last.id \in DOMAIN bosses[last.name].broadcast
    /\ Cardinality(DOMAIN bosses[last.name].broadcast) = 2
    /\ \E s \in Subs :
          /\ handles[s].st = "live"
          /\ handles[s].id = last.id
          /\ last.name \in handles[s].following

\* a Follow was just handled whose id is not in the global group
C29_WitnessAbsent ==
    /\ last.type = "SubscriberFollow"
    /\ last.id \notin DOMAIN subscribers

\* a Follow was just handled that made the pending group for the boss
C29_WitnessPending ==
    /\ last.type = "SubscriberFollow"
    /\ last.name \in DOMAIN requested_bosses
    /\ DOMAIN requested_bosses[last.name] = {last.id}

(***************************************************************************)
(* C30                                                                     *)
(***************************************************************************)
\* group g without id
WithoutMember(g, id) == [i \in (DOMAIN g) \ {id} |-> g[i]]

\* C30: Unfollow(id, boss) removes id from the followers of the catalog
\* entry of boss when there is one; otherwise it removes id from the pending
\* group for boss and deletes the pending entry when the group becomes
\* empty; when there is neither it changes no state; it changes nothing else
C30_Unfollow ==
    [][Answers("SubscriberUnfollow") =>
          LET id == Head(ctl).id
              n == Head(ctl).name
          IN  /\ UNCHANGED <<status, id_pool, subscribers, cached_boss_list, pipeVars>>
              /\ DOMAIN bosses' = DOMAIN bosses
              /\ \A b \in DOMAIN bosses :
                    /\ b # n => bosses'[b] = bosses[b]
                    /\ bosses'[b].boss = bosses[b].boss
                    /\ bosses'[b].recent_tweets = bosses[b].recent_tweets
              /\ \A b \in Names \ {n} :
                    /\ b \in DOMAIN requested_bosses' <=> b \in DOMAIN requested_bosses
                    /\ PendingOf(requested_bosses', b) = PendingOf(requested_bosses, b)
              /\ IF n \in DOMAIN bosses
                 THEN /\ bosses'[n].broadcast = WithoutMember(bosses[n].broadcast, id)
                      /\ requested_bosses' = requested_bosses
                 ELSE IF n \in DOMAIN requested_bosses
                 THEN /\ bosses' = bosses
                      /\ IF DOMAIN requested_bosses[n] \subseteq {id}
                         THEN n \notin DOMAIN requested_bosses'
                         ELSE /\ n \in DOMAIN requested_bosses'
                              /\ requested_bosses'[n] =
                                    WithoutMember(requested_bosses[n], id)
                 ELSE UNCHANGED <<workerVars, pipeVars>>
      ]_vars

\* an Unfollow sent by a dropped handle, the only one waiting for the boss,
\* was just handled: the pending group for the boss is gone
C30_Witness ==
    /\ last.type = "SubscriberUnfollow"
    /\ last.src = "drop"
    /\ last.pre = 1
    /\ last.name \notin DOMAIN bosses
    /\ last.name \notin DOMAIN requested_bosses

\* an Unfollow was just handled that took a follower out of a catalog entry
\* and left another
C30_WitnessCatalog ==
    /\ last.type = "SubscriberUnfollow"
    /\ last.name \in DOMAIN bosses
    /\ last.id \notin DOMAIN bosses[last.name].broadcast
    /\ DOMAIN bosses[last.name].broadcast # {}

(***************************************************************************)
(* C31                                                                     *)
(***************************************************************************)
\* C31: handling Unsubscribe(id) removes id from the global group, gives
\* the id back to the pool and sets the total-subscriber metric to the size
\* of the global group; the catalog with every follower group, the pending
\* table, the per-boss counts of the sink and everything else the worker
\* holds stay as they were, also when a group still holds id
C31_UnsubscribeFrame ==
    [][Answers("SubscriberUnsubscribe") =>
         LET id == Head(ctl).id IN
         /\ subscribers' = WithoutMember(subscribers, id)
         /\ id_pool' = IdPoolRecycle(id_pool, id)
         /\ metrics'.total_subscriber_count = Size(subscribers')
         /\ metrics'.boss_counts = metrics.boss_counts
         /\ UNCHANGED <<status, bosses, requested_bosses, cached_boss_list,
                        tweet_history_size, filter_map_message, pipeVars>>]_vars

\* C31 witness: an Unsubscribe was just handled for an id that a follower
\* group of the catalog and a pending group still hold
C31_Witness ==
    /\ last.type = "SubscriberUnsubscribe"
    /\ \E n \in DOMAIN bosses : last.id \in DOMAIN bosses[n].broadcast
    /\ \E n \in DOMAIN requested_bosses : last.id \in DOMAIN requested_bosses[n]
    /\ last.id \notin DOMAIN subscribers

(***************************************************************************)
(* C32                                                                     *)
(***************************************************************************)
\* the step handles a NewRaid that adds boss n to the catalog
AddsBoss(n) ==
    /\ n \notin DOMAIN bosses
    /\ n \in DOMAIN bosses'
    /\ last'.type = "NewRaidInfo"
    /\ last'.name = n

\* C32: the NewRaid that adds a boss to the catalog makes two broadcasts,
\* in this order: the BossUpdate of the new boss to the global group, then
\* the adapted tweet to the pending followers of the boss, which are
\* promoted; so a subscriber that is in both groups has its send invoked
\* with the BossUpdate first and with the Tweet second
C32_BossUpdateFirst ==
    [][\A n \in Names : AddsBoss(n) =>
          /\ Len(obs'.log) = 2
          /\ obs'.log[1].msg = Adapt(Msg("BossUpdate", bosses'[n].boss))
          /\ obs'.log[1].msg.kind = "BossUpdate"
          /\ obs'.log[1].to = Range(subscribers)
          /\ obs'.log[2].msg = Adapt(Msg("Tweet", n))
          /\ obs'.log[2].msg.kind = "Tweet"
          /\ obs'.log[2].to = Range(PendingOf(requested_bosses, n))
      ]_vars

\* C32 witness: the NewRaid just handled added a boss; a subscriber of the
\* global group was also waiting for the boss, and was sent both messages
C32_Witness ==
    /\ last.type = "NewRaidInfo"
    /\ last.new
    /\ Len(obs.log) = 2
    /\ obs.log[1].to \cap obs.log[2].to # {}
    /\ bosses[last.name].broadcast # BroadcastNew

(***************************************************************************)
(* C33                                                                     *)
(***************************************************************************)
\* the followers a Simple sink has recorded for boss n; -1 if it has no
\* entry for n
RecordedFollowers(m, n) ==
    IF n \in DOMAIN m.boss_counts THEN m.boss_counts[n].followers ELSE -1

\* C33: when a Follow or Unfollow for a boss of the catalog has just been
\* handled, the follower count the Simple sink holds for the boss is the
\* size of the boss's follower group; the catalog may hold a boss given to
\* with_bosses that no tweet has named yet
C33_FollowerCount ==
    (/\ last.type \in {"SubscriberFollow", "SubscriberUnfollow"}
     /\ last.name \in DOMAIN bosses)
    => RecordedFollowers(metrics, last.name) = Size(bosses[last.name].broadcast)

(***************************************************************************)
(* C38                                                                     *)
(***************************************************************************)
\* C38: between events the total-subscriber count held by the Simple sink
\* is the size of the global group, also after a failed broadcast evicted a
\* subscriber
C38_TotalGauge == metrics.total_subscriber_count = Size(subscribers)

(***************************************************************************)
(* C39                                                                     *)
(***************************************************************************)
\* the ids in some follower group of the catalog or some pending group
FollowerIds ==
    UNION {DOMAIN bosses[n].broadcast : n \in DOMAIN bosses}
      \cup UNION {DOMAIN requested_bosses[n] : n \in DOMAIN requested_bosses}

\* C39: every id that is in a follower group or in a pending group is in
\* the global group
C39_FollowersSubscribed == FollowerIds \subseteq DOMAIN subscribers

(***************************************************************************)
(* C40                                                                     *)
(***************************************************************************)
\* C40: every group stored in the pending table has at least one member
C40_PendingNonEmpty ==
    \A n \in DOMAIN requested_bosses : DOMAIN requested_bosses[n] # {}

\* C40 witness: an Unfollow was just handled that took one of two
\* subscribers out of a pending group, which is still in the table
C40_Witness ==
    /\ last.type = "SubscriberUnfollow"
    /\ last.name \in DOMAIN requested_bosses
    /\ last.id \notin DOMAIN requested_bosses[last.name]
    /\ last.pre = 2

\* C40 witness: a RemoveBosses was just handled that removed an entry
\* without followers, for which the table has no group
C40_WitnessRemoved ==
    /\ last.type = "ClientRemoveBosses"
    /\ last.f # {}
    /\ \A n \in last.f : n \notin DOMAIN requested_bosses

(***************************************************************************)
(* C34                                                                     *)
(***************************************************************************)
\* the subscribers whose send the handler that ran last invoked
SentSubscribers(log) == UNION {log[k].to : k \in 1..Len(log)}

\* C34: no handler invokes a send with a message for which the adapter
\* returned None, and no handler takes out of the global group or out of a
\* follower group a subscriber whose send it did not invoke; a Heartbeat
\* whose cached output is None sends nothing and leaves the global group as
\* it was
C34_AbsentNotSent ==
    [][/\ \A k \in 1..Len(obs'.log) :
             /\ obs'.log[k].msg # None
             /\ obs'.log[k].msg.kind \in filter_map_message
       /\ \A id \in DOMAIN subscribers :
             id \notin DOMAIN subscribers' =>
                subscribers[id] \in SentSubscribers(obs'.log)
       /\ \A n \in DOMAIN bosses : \A id \in DOMAIN bosses[n].broadcast :
             (n \in DOMAIN bosses' /\ id \notin DOMAIN bosses'[n].broadcast) =>
                bosses[n].broadcast[id] \in SentSubscribers(obs'.log)
       /\ (Answers("SubscriberHeartbeat") /\ "Heartbeat" \notin filter_map_message) =>
             /\ obs'.log = <<>>
             /\ subscribers' = subscribers
      ]_vars

\* C34 witness: a Heartbeat was just handled by a worker whose adapter
\* returns None for it, while the global group holds a subscriber whose
\* send would have failed
C34_Witness ==
    /\ last.type = "SubscriberHeartbeat"
    /\ "Heartbeat" \notin filter_map_message
    /\ "Tweet" \in filter_map_message
    /\ obs.log = <<>>
    /\ \E id \in DOMAIN subscribers : subscribers[id] \in broken

(***************************************************************************)
(* C36                                                                     *)
(***************************************************************************)
\* C36: what Backlog::snapshot returns is the last min(n, c) items pushed,
\* oldest first, whatever pushes and snapshots came before it
C36_SnapshotFresh ==
    last.type = "snapshot" =>
       last.result = LastItems(pushed, Min(Len(pushed), backlog.capacity))

(***************************************************************************)
(* C37: a subscriber that opens a stream for a boss, get_tweets and then   *)
(* follow, misses no tweet of that boss: once the TweetList reply has been *)
(* produced, every NewRaid handled for the boss is sent to the subscriber  *)
(* as a Tweet, however the posts interleave with the two control events.   *)
(***************************************************************************)
\* subscriber s has opened a stream for n and its GetTweets has been handled
TweetListProduced(s, n) ==
    /\ handles[s].st = "live"
    /\ n \in handles[s].following
    /\ \A k \in 1..Len(ctl) :
          ~(ctl[k].type = "SubscriberGetTweets" /\ ctl[k].id = handles[s].id
            /\ ctl[k].name = n)

\* the step sent the Tweet of boss n to subscriber s
TweetSentTo(s, n) ==
    \E k \in 1..Len(obs'.log) :
       /\ obs'.log[k].msg = Adapt(Msg("Tweet", n))
       /\ s \in obs'.log[k].to

C37_StreamMissesNoTweet ==
    [][\A s \in Subs, n \in Names :
          (TweetListProduced(s, n) /\ RaidFor(n)) => TweetSentTo(s, n)]_vars

(***************************************************************************)
(* C35: no input starves. While the worker is polled and has not           *)
(* terminated, an event queued on the control channel is eventually        *)
(* handled, and so is a hash result that is ready, even when the post      *)
(* stream has another post ready at every poll.                            *)
(***************************************************************************)
\* a completed fetch for boss n waits to be handled
HashReady(n) == \E k \in 1..Len(events.ready) : events.ready[k].name = n

C35_NoInputStarves ==
    /\ \A k \in 1..(MaxQueue + 1) : (Len(ctl) = k) ~> (Len(ctl) < k \/ status # "running")
    /\ \A n \in Names : HashReady(n) ~> (~HashReady(n) \/ status # "running")

\* a post has just been handled while a control event and a hash result wait
C35_Witness ==
    /\ last.type = "NewRaidInfo"
    /\ ctl # <<>>
    /\ events.ready # <<>>
    /\ status = "running"

====
